---------------------------- MODULE Spec2Model ----------------------------
(***************************************************************************)
(* Conversation-context management core of the ADK server: the trimming    *)
(* and compacting session-service decorators, and the /run_sse streaming   *)
(* loop with its single token-limit retry.                                 *)
(*                                                                         *)
(* Text is modelled in two ways.  Event text, of which the code only uses  *)
(* the length and whether trim() leaves anything, is a record              *)
(* [len, ws].  Streamed text, which the code compares with startsWith and  *)
(* cuts with slice, is a sequence of characters.                           *)
(***************************************************************************)
EXTENDS Integers, Sequences, FiniteSets, TLC

VARIABLES
    store,       \* event list the inner store holds for the session
    nextId,      \* next fresh event id
    phase,       \* position of the driver: "build" or "called"
    call,        \* the last call made and what it returned
    globals,     \* the __ADK_* properties of globalThis
    priority,    \* whether getPriority() returns a service
    req,         \* the /run_sse requests in flight, by request
    sse,         \* the locals of one /run_sse handler while it streams
    frames,      \* the SSE frames written to the response, in order
    cfg,         \* the options of createCompactingSessionService
    tasks,       \* the compactions suspended in the summarizer
    last,        \* the latest runCompaction call and what came of it
    hist         \* which events were appended and which a summary stands for

vars == <<store, nextId, phase, call, globals, priority, req, sse, frames,
          cfg, tasks, last, hist>>

fnVars == <<phase, call>>

reqVars == <<globals, priority, req>>

sseVars == <<sse, frames>>

compVars == <<cfg, tasks, last, hist>>

-----------------------------------------------------------------------------
(* Bounds of the model *)

MaxEvents == 5

-----------------------------------------------------------------------------
(* Event text *)

Absent == [len |-> -1, ws |-> TRUE]

Str(n, w) == [len |-> n, ws |-> w]

EmptyStr == Str(0, TRUE)

Concat(a, b) == Str(a.len + b.len, a.ws /\ b.ws)

\* "[binary]"
BinaryMarker == Str(8, FALSE)

TextPart(s) == [text |-> s, value |-> Absent, inlineData |-> FALSE]

ValuePart(s) == [text |-> Absent, value |-> s, inlineData |-> FALSE]

InlinePart == [text |-> Absent, value |-> Absent, inlineData |-> TRUE]

\* p.text is truthy: present and not the empty string
Truthy(s) == s # Absent /\ s.len > 0

\* a bug: a part carrying only inlineData reads as the empty string
BinaryPartEmpty(p) ==
    IF Truthy(p.text) THEN p.text
    ELSE IF p.value # Absent THEN p.value
    ELSE EmptyStr

\* the trimming service's reading of one part
TrimPartText(p) ==
    IF Truthy(p.text) THEN p.text
    ELSE IF p.value # Absent THEN p.value
    ELSE IF p.inlineData THEN BinaryMarker
    ELSE EmptyStr

RECURSIVE JoinParts(_, _)
JoinParts(parts, i) ==
    IF i > Len(parts) THEN EmptyStr
    ELSE Concat(TrimPartText(parts[i]), JoinParts(parts, i + 1))

\* extractTextFromParts of the trimming service
extractTextFromParts(parts) == JoinParts(parts, 1)

\* Math.ceil(n / 4)
CeilDiv4(n) == (n + 3) \div 4

\* Math.ceil(extractTextFromParts(ev.content.parts).length / 4)
EventTokens(ev) == CeilDiv4(extractTextFromParts(ev.parts).len)

\* what an appended event may carry: 400 tokens in two parts (1597
\* characters), an empty text, binary only, 600 tokens
BigEvent ==
    [author |-> "model", parts |-> <<TextPart(Str(1199, FALSE)),
                                     ValuePart(Str(398, FALSE))>>]

BlankEvent == [author |-> "", parts |-> <<TextPart(EmptyStr)>>]

BinaryEvent == [author |-> "USER", parts |-> <<InlinePart>>]

HugeEvent == [author |-> "user", parts |-> <<TextPart(Str(2400, FALSE))>>]

EventPool == {BigEvent, BlankEvent, BinaryEvent, HugeEvent}

\* the events appended between requests
StoredPool == {BigEvent, BlankEvent, BinaryEvent}

\* the clock at the creation of the event with this id: it never runs
\* backwards and does not always advance between two events
Clock(id) == (id + 1) \div 2

NewEvent(id, shape) ==
    [id |-> id, author |-> shape.author, parts |-> shape.parts,
     timestamp |-> Clock(id)]

Ids(events) == { events[i].id : i \in 1..Len(events) }

RECURSIVE SumTokens(_, _)
SumTokens(events, i) ==
    IF i > Len(events) THEN 0 ELSE EventTokens(events[i]) + SumTokens(events, i + 1)

-----------------------------------------------------------------------------
(* Trimming: projection, priority trim, FIFO trim *)

\* String.prototype.toLowerCase on the authors of the pool
ToLowerCase(a) == IF a = "USER" THEN "user" ELSE a

ChatMessageRole == [System |-> 0, User |-> 1, Assistant |-> 2]

\* a bug: the author is compared as written
RoleCaseSensitive(ev) ==
    IF ev.author = "user" \/ ev.author = "" THEN ChatMessageRole.User
    ELSE ChatMessageRole.Assistant

RoleOf(ev) ==
    LET author == ToLowerCase(ev.author)
    IN  IF author = "user" \/ author = "" THEN ChatMessageRole.User
        ELSE ChatMessageRole.Assistant

RECURSIVE ProjectFrom(_, _)
ProjectFrom(events, i) ==
    IF i > Len(events) THEN [messages |-> <<>>, eventIndices |-> <<>>]
    ELSE LET text == extractTextFromParts(events[i].parts)
             rest == ProjectFrom(events, i + 1)
         IN  IF text.ws THEN rest
             ELSE [messages     |-> <<[role |-> RoleOf(events[i]), value |-> text]>>
                                    \o rest.messages,
                   eventIndices |-> <<i>> \o rest.eventIndices]

eventsToMessagesWithIndices(events) == ProjectFrom(events, 1)

\* insertion of x into an ascending sequence
RECURSIVE InsertAsc(_, _)
InsertAsc(x, s) ==
    IF s = <<>> THEN <<x>>
    ELSE IF x <= Head(s) THEN <<x>> \o s
    ELSE <<Head(s)>> \o InsertAsc(x, Tail(s))

\* indicesToKeep.sort((a, b) => a - b)
RECURSIVE SortAsc(_)
SortAsc(s) == IF s = <<>> THEN <<>> ELSE InsertAsc(Head(s), SortAsc(Tail(s)))

\* the loop over `selected`: messages.indexOf(msg), kept when found.  A selected
\* message is given by its position in `messages`, 0 for an object that is not
\* one of them.
RECURSIVE LiftSelected(_, _)
LiftSelected(selected, eventIndices) ==
    IF selected = <<>> THEN <<>>
    ELSE LET j == Head(selected)
             rest == LiftSelected(Tail(selected), eventIndices)
         IN  IF j >= 1 /\ j <= Len(eventIndices) THEN <<eventIndices[j]>> \o rest
             ELSE rest

\* a bug: the lifted indices are left in the order the ranker returned them
UnsortedIndices(selected, eventIndices) == LiftSelected(selected, eventIndices)

indicesToKeep(selected, eventIndices) == SortAsc(LiftSelected(selected, eventIndices))

\* a bug: without a ranker trimEventsByRank selects nothing
RankEmptyWithoutRanker(events, prio, selected) ==
    IF Len(events) = 0 THEN events
    ELSE LET p == eventsToMessagesWithIndices(events)
         IN  IF Len(p.messages) = 0 THEN events
             ELSE IF Len(p.messages) <= 3 THEN events
             ELSE IF ~prio THEN <<>>
             ELSE LET keep == indicesToKeep(selected, p.eventIndices)
                  IN  [k \in 1..Len(keep) |-> events[keep[k]]]

\* trimEventsByRank; `prio` is whether getPriority() is non-null and
\* `selected` what priority.selectByTokenBudget returned
trimEventsByRank(events, prio, selected) ==
    IF Len(events) = 0 THEN events
    ELSE LET p == eventsToMessagesWithIndices(events)
         IN  IF Len(p.messages) = 0 THEN events
             ELSE IF Len(p.messages) <= 3 THEN events
             ELSE IF ~prio THEN events
             ELSE LET keep == indicesToKeep(selected, p.eventIndices)
                  IN  [k \in 1..Len(keep) |-> events[keep[k]]]

\* a bug: the keep-at-least-one test is dropped
RECURSIVE FifoLoopNoKeepOne(_, _, _, _, _)
FifoLoopNoKeepOne(events, tokenBudget, i, total, result) ==
    IF i < 1 THEN result
    ELSE LET tokens == EventTokens(events[i])
         IN  IF (total + tokens) * 1000 > tokenBudget THEN result
             ELSE FifoLoopNoKeepOne(events, tokenBudget, i - 1, total + tokens,
                                    <<events[i]>> \o result)

\* the loop of trimEventsFifo, from the last event down; budgets are in
\* thousandths of a token, so that a fractional retry budget stays exact
RECURSIVE FifoLoop(_, _, _, _, _)
FifoLoop(events, tokenBudget, i, total, result) ==
    IF i < 1 THEN result
    ELSE LET tokens == EventTokens(events[i])
         IN  IF (total + tokens) * 1000 > tokenBudget /\ Len(result) > 0 THEN result
             ELSE FifoLoop(events, tokenBudget, i - 1, total + tokens,
                           <<events[i]>> \o result)

\* a bug: a budget that is not positive is taken as no budget at all
FifoUnboundedAtZero(events, tokenBudget) ==
    IF Len(events) = 0 \/ tokenBudget <= 0 THEN events
    ELSE FifoLoop(events, tokenBudget, Len(events), 0, <<>>)

trimEventsFifo(events, tokenBudget) ==
    IF Len(events) = 0 THEN events
    ELSE FifoLoop(events, tokenBudget, Len(events), 0, <<>>)

RECURSIVE AscOf(_)
AscOf(S) ==
    IF S = {} THEN <<>>
    ELSE LET x == CHOOSE y \in S : \A z \in S : y <= z
         IN  <<x>> \o AscOf(S \ {x})

Reverse(s) == [k \in 1..Len(s) |-> s[Len(s) + 1 - k]]

\* what selectByTokenBudget may return for m messages: any subset of them, in
\* message order or in the opposite order
Selections(m) ==
    { AscOf(S) : S \in SUBSET (1..m) } \cup { Reverse(AscOf(S)) : S \in SUBSET (1..m) }

-----------------------------------------------------------------------------
(* The trimming decorator *)

None == [some |-> FALSE, v |-> 0]

Some(n) == [some |-> TRUE, v |-> n]

\* typeof x === 'number' && x > 0
IsPositiveNumber(x) == x.some /\ x.v > 0

Max(a, b) == IF a >= b THEN a ELSE b

\* tokenBudget of createTrimmingSessionService
defaultBudget == 4000

DEFAULT_BUFFER == 2200

\* the floor of the effective budget
MinEffectiveBudget == 1000

\* globalThis with every __ADK_* property null.  retryTrimPercent is held in
\* tenths of a percent and retryTokenBudgetFactor in thousandths, so 12.5 %
\* is 125 and the factor 0.125 is 125 too.
NoGlobals ==
    [modelOverride |-> None, requestContextLimit |-> None,
     retryTrimPercent |-> None, retryTokenBudgetFactor |-> None]

\* the retryFactor of getSession, in thousandths: the global when it is a
\* number above 0, and 1 otherwise
RetryFactor(g) ==
    IF IsPositiveNumber(g.retryTokenBudgetFactor)
    THEN g.retryTokenBudgetFactor.v ELSE 1000

\* a bug: the effective budget has no floor
BudgetWithoutFloor(g) ==
    LET budget == IF IsPositiveNumber(g.requestContextLimit)
                  THEN g.requestContextLimit.v ELSE defaultBudget
        retryFactor == IF IsPositiveNumber(g.retryTokenBudgetFactor)
                       THEN g.retryTokenBudgetFactor.v ELSE 1000
    IN  (budget - DEFAULT_BUFFER) * retryFactor

\* Math.max(1000, (budget - buffer) * retryFactor), in thousandths of a token
effectiveBudget(g) ==
    LET budget == IF IsPositiveNumber(g.requestContextLimit)
                  THEN g.requestContextLimit.v ELSE defaultBudget
        retryFactor == IF IsPositiveNumber(g.retryTokenBudgetFactor)
                       THEN g.retryTokenBudgetFactor.v ELSE 1000
    IN  Max(MinEffectiveBudget * 1000, (budget - DEFAULT_BUFFER) * retryFactor)

\* the outcomes of the ranker: it throws, or selectByTokenBudget returns
NoThrow(selected) == [throws |-> FALSE, selected |-> selected]

Throws == [throws |-> TRUE, selected |-> <<>>]

\* a bug: the catch block returns the session as it was read
CatchReturnsSession(events, budget) == events

\* the catch block of getSession: the FIFO fallback, when it is shorter
CatchFallback(events, budget) ==
    LET fallback == trimEventsFifo(events, budget)
    IN  IF Len(fallback) < Len(events) THEN fallback ELSE events

\* a bug: sessions of fewer than 4 events are trimmed like any other
NeverTooShort(events) == FALSE

\* session.events.length < 4
TooShortToTrim(events) == Len(events) < 4

\* a bug: the list the ranker leaves is returned without the FIFO fallback
TrimmingWithoutFifo(events, g, prio, ranker) ==
    IF TooShortToTrim(events) THEN events
    ELSE IF SumTokens(events, 1) * 1000 <= effectiveBudget(g) THEN events
    ELSE IF prio /\ ranker.throws
         THEN CatchFallback(events, effectiveBudget(g))
    ELSE LET trimmed == trimEventsByRank(events, prio, ranker.selected)
         IN  IF Len(trimmed) >= Len(events) THEN events ELSE trimmed

\* the events of the session getSession of the trimming decorator returns
TrimmingGetSession(events, g, prio, ranker) ==
    IF TooShortToTrim(events) THEN events
    ELSE IF SumTokens(events, 1) * 1000 <= effectiveBudget(g) THEN events
    ELSE IF prio /\ ranker.throws
         THEN CatchFallback(events, effectiveBudget(g))
    ELSE LET trimmed == trimEventsByRank(events, prio, ranker.selected)
             finalEvents == IF Len(trimmed) < Len(events) THEN trimmed
                            ELSE trimEventsFifo(events, effectiveBudget(g))
         IN  IF Len(finalEvents) >= Len(events) THEN events ELSE finalEvents

\* a bug: the trimmed list is assigned to the stored session
TrimmingWritesBack(stored, returned) == returned

\* what the stored list is after getSession of the trimming decorator: the
\* result is a fresh object {...session, events: [...finalEvents]} and nothing
\* is assigned to the session read from the inner store
StoredAfterTrimming(stored, returned) == stored

-----------------------------------------------------------------------------
(* The compacting decorator *)

MaxStored == 4

MaxTasks == 2

MaxSummaries == 2

Cfg(interval, overlap, min, hatch) ==
    [compactionInterval |-> interval, overlapSize |-> overlap,
     minEventsToCompact |-> min, storageRef |-> hatch]

\* compactionInterval = 3, overlapSize = 1, minEventsToCompact = 6
DefaultCfg == Cfg(3, 1, 6, TRUE)

NoWindow == [null |-> TRUE, start |-> 0, end |-> 0]

\* a bug: the window always starts at the first event
WindowFromStart(n, compactionInterval, overlapSize) ==
    IF n < compactionInterval THEN NoWindow
    ELSE [null |-> FALSE, start |-> 0,
          end |-> (n \div compactionInterval) * compactionInterval]

\* a bug: the overlap is left out of the window
WindowWithoutOverlap(n, compactionInterval, overlapSize) ==
    IF n < compactionInterval THEN NoWindow
    ELSE [null |-> FALSE,
          start |-> Max(0, (n \div compactionInterval) * compactionInterval
                           - compactionInterval),
          end |-> (n \div compactionInterval) * compactionInterval]

computeCompactionWindow(n, compactionInterval, overlapSize) ==
    IF n < compactionInterval THEN NoWindow
    ELSE LET numFullWindows == n \div compactionInterval IN
         IF numFullWindows = 0 THEN NoWindow
         ELSE LET windowEnd == numFullWindows * compactionInterval
                  overlapStart == Max(0, windowEnd - compactionInterval - overlapSize)
              IN  [null |-> FALSE, start |-> overlapStart, end |-> windowEnd]

\* events.slice(from, to), with zero-based bounds
SliceEvents(events, from, to) ==
    SubSeq(events, from + 1, IF to > Len(events) THEN Len(events) ELSE to)

\* a bug: the window is summarized however small it is
CallsSummarizerBelowMin(events, c) ==
    ~computeCompactionWindow(Len(events), c.compactionInterval, c.overlapSize).null

\* a bug: a window of exactly minEventsToCompact events is not summarized
CallsSummarizerAboveMin(events, c) ==
    LET window == computeCompactionWindow(Len(events), c.compactionInterval,
                                          c.overlapSize)
    IN  /\ ~window.null
        /\ ~(window.end - window.start <= c.minEventsToCompact)
        /\ Len(SliceEvents(events, window.start, window.end)) # 0

\* runCompaction up to its await: whether the summarizer is called
CallsSummarizer(events, c) ==
    LET window == computeCompactionWindow(Len(events), c.compactionInterval,
                                          c.overlapSize)
    IN  /\ ~window.null
        /\ ~(window.end - window.start < c.minEventsToCompact)
        /\ Len(SliceEvents(events, window.start, window.end)) # 0

\* extractTextFromParts of the compacting service and of the summarizer:
\* there is no inlineData case
CompactPartText(p) ==
    IF Truthy(p.text) THEN p.text
    ELSE IF p.value # Absent THEN p.value
    ELSE EmptyStr

RECURSIVE JoinCompactParts(_, _)
JoinCompactParts(parts, i) ==
    IF i > Len(parts) THEN EmptyStr
    ELSE Concat(CompactPartText(parts[i]), JoinCompactParts(parts, i + 1))

\* formatEventsForPrompt(events).trim() is empty
HistoryBlank(events) ==
    \A i \in 1..Len(events) : JoinCompactParts(events[i].parts, 1).ws

\* what maybeSummarizeEvents does with the window: a result with summary
\* text, null, a result whose text is blank, or it throws.  A blank history
\* gives null before the LLM is asked.
SummarizerOutcomes(toCompact) ==
    IF HistoryBlank(toCompact) THEN {"null"}
    ELSE {"summary", "null", "blank", "throws"}

\* what the completion endpoint does with the request of the summarizer:
\* fetch rejects, the status is not 2xx, the body is not JSON, or the
\* completion carries no content, blank content or a summary
LlmOutcomes == {"rejects", "status", "badjson", "empty", "blank", "text"}

NoResponse == [threw |-> FALSE, errorCode |-> FALSE, hasParts |-> FALSE,
               text |-> EmptyStr]

\* summarizerLlm.generateContentAsync: the one response it yields, or the
\* exception of fetch or res.json()
generateContentAsync(llm) ==
    IF llm \in {"rejects", "badjson"} THEN [NoResponse EXCEPT !.threw = TRUE]
    ELSE IF llm = "status" THEN [NoResponse EXCEPT !.errorCode = TRUE]
    ELSE [NoResponse EXCEPT
            !.hasParts = TRUE,
            !.text = IF llm = "empty" THEN EmptyStr
                     ELSE IF llm = "blank" THEN Str(2, TRUE)
                     ELSE Str(100, FALSE)]

NullResult == [threw |-> FALSE, null |-> TRUE, asked |-> FALSE, text |-> EmptyStr]

\* maybeSummarizeEvents: null, a result with the text of the completion, or
\* the exception of the LLM call, which it does not catch
maybeSummarizeEvents(events, llm) ==
    IF Len(events) = 0 \/ HistoryBlank(events) THEN NullResult
    ELSE LET response == generateContentAsync(llm) IN
         IF response.threw
         THEN [NullResult EXCEPT !.threw = TRUE, !.null = FALSE, !.asked = TRUE]
         ELSE IF response.errorCode \/ ~response.hasParts
         THEN [NullResult EXCEPT !.asked = TRUE]
         ELSE [NullResult EXCEPT !.null = FALSE, !.asked = TRUE,
                                 !.text = response.text]

\* "[Previous conversation summary]\n" and a summary of 100 characters
SummaryShape == [author |-> "user", parts |-> <<TextPart(Str(132, FALSE))>>]

\* the latest call of the decorator that ran runCompaction: the array it
\* handed over as it was at the call (input) and at the return (events), the
\* window, whether the summarizer was called, whether a compacted list came
\* back (fired) and which, whether the call of the decorator threw, and the
\* id of the event appendEvent returned (0 for getSession)
NoRun ==
    [op |-> "none", input |-> <<>>, events |-> <<>>, window |-> NoWindow,
     called |-> FALSE, outcome |-> "none", fired |-> FALSE, output |-> <<>>,
     threw |-> FALSE, returned |-> 0]

\* the id appendEvent returns: that of the event the inner store returned
ReturnedId(op, input) == IF op = "append" THEN input[Len(input)].id ELSE 0

\* a bug: the summary event is stamped with the time of the compaction
SummaryStampedNow(toCompact, now) == now

\* endTimestamp: events[events.length - 1].timestamp
SummaryTimestamp(toCompact, now) == toCompact[Len(toCompact)].timestamp

\* createSummaryEvent
SummaryEvent(id, toCompact) ==
    [NewEvent(id, SummaryShape) EXCEPT
        !.timestamp = SummaryTimestamp(toCompact, Clock(id))]

\* a bug: the window is cut out and no summary event is put in its place
SpliceDropsSummary(events, window, summaryEvent) ==
    SliceEvents(events, 0, window.start) \o SliceEvents(events, window.end, Len(events))

\* a bug: the event at the end of the window is kept next to its summary
SpliceKeepsLast(events, window, summaryEvent) ==
    SliceEvents(events, 0, window.start) \o <<summaryEvent>>
        \o SliceEvents(events, window.end - 1, Len(events))

\* [...before, summaryEvent, ...after]
Splice(events, window, summaryEvent) ==
    LET before == SliceEvents(events, 0, window.start)
        after == SliceEvents(events, window.end, Len(events))
    IN  before \o <<summaryEvent>> \o after

\* a bug: an exception of the summarizer leaves the decorator
NotCaught(outcome) == outcome = "throws"

\* whether the decorator's call throws: runCompaction is awaited inside try
Rethrown(outcome) == FALSE

NoHist == [appended |-> {}, summaries |-> {}, covers |-> {}]

\* the record of a runCompaction call that returned null before its await
Declined(op, events, c) ==
    [op |-> op, input |-> events, events |-> events,
     window |-> computeCompactionWindow(Len(events), c.compactionInterval,
                                        c.overlapSize),
     called |-> FALSE, outcome |-> "none", fired |-> FALSE, output |-> events,
     threw |-> FALSE, returned |-> ReturnedId(op, events)]

\* a runCompaction call suspended in summarizer.maybeSummarizeEvents.  events is
\* the array it was handed: a copy (getSession) or the stored array itself
\* (appendEvent), which is live while the store still holds that array.
Suspended(op, events, live, c) ==
    [op |-> op, events |-> events, live |-> live, input |-> events,
     window |-> computeCompactionWindow(Len(events), c.compactionInterval,
                                        c.overlapSize)]

\* Array.prototype.push on the stored array, seen through every reference
PushLive(ts, event) ==
    [i \in DOMAIN ts |->
        IF ts[i].live THEN [ts[i] EXCEPT !.events = Append(ts[i].events, event)]
        ELSE ts[i]]

\* the stored session gets a new array: earlier references keep the old one
Detach(ts) == [i \in DOMAIN ts |-> [ts[i] EXCEPT !.live = FALSE]]

RemoveAt(ts, k) == SubSeq(ts, 1, k - 1) \o SubSeq(ts, k + 1, Len(ts))

\* the summarizer is called at most MaxSummaries times with success
MoreSummaries == Cardinality(hist.summaries) + Len(tasks) < MaxSummaries

\* appendEvent of the compacting decorator: the inner append, then the
\* post-append compaction up to its await
CompactingAppendEvent ==
    /\ Cardinality(hist.appended) < MaxStored
    /\ \E shape \in {BigEvent, BlankEvent} :
          LET event == NewEvent(nextId, shape)
              stored == Append(store, event)
              pushed == PushLive(tasks, event)
          IN  /\ store' = stored
              /\ hist' = [hist EXCEPT !.appended = @ \cup {nextId}]
              /\ IF cfg.storageRef /\ CallsSummarizer(stored, cfg)
                 THEN Len(tasks) < MaxTasks /\ MoreSummaries ELSE TRUE
              /\ IF cfg.storageRef /\ CallsSummarizer(stored, cfg)
                 THEN /\ tasks' = Append(pushed, Suspended("append", stored, TRUE, cfg))
                      /\ last' = last
                 ELSE /\ tasks' = pushed
                      /\ last' = IF cfg.storageRef
                                 THEN Declined("append", stored, cfg) ELSE last
    /\ nextId' = nextId + 1
    /\ UNCHANGED <<fnVars, reqVars, sseVars, cfg>>

\* getSession of the compacting decorator up to the await in runCompaction
CompactingGetSession ==
    /\ IF Len(store) # 0 /\ CallsSummarizer(store, cfg)
       THEN /\ Len(tasks) < MaxTasks /\ MoreSummaries
            /\ tasks' = Append(tasks, Suspended("get", store, FALSE, cfg))
            /\ last' = last
       ELSE /\ tasks' = tasks
            /\ last' = IF Len(store) # 0 THEN Declined("get", store, cfg) ELSE last
    /\ UNCHANGED <<store, nextId, fnVars, reqVars, sseVars, cfg, hist>>

\* a bug: the compacted list is not assigned to the stored session
WriteBackSkipped(stored, compacted, input) == stored

\* storageSession.events = compacted
WriteBack(stored, compacted, input) == compacted

\* maybeSummarizeEvents settles and runCompaction, then its caller, resume
SummarizerSettles ==
    /\ \E k \in DOMAIN tasks :
         LET t == tasks[k]
             toCompact == SliceEvents(t.input, t.window.start, t.window.end)
             rest == RemoveAt(tasks, k)
         IN  \E outcome \in SummarizerOutcomes(toCompact) :
               IF outcome = "summary"
               THEN LET summaryEvent == SummaryEvent(nextId, toCompact)
                        compacted == Splice(t.events, t.window, summaryEvent)
                        covered == Ids(toCompact) \cup
                                   { p[2] : p \in { q \in hist.covers :
                                                      q[1] \in Ids(toCompact) } }
                    IN  /\ nextId' = nextId + 1
                        /\ hist' = [hist EXCEPT
                                      !.summaries = @ \cup {nextId},
                                      !.covers = @ \cup { <<nextId, id>> : id \in covered }]
                        /\ last' = [op |-> t.op, input |-> t.input,
                                    events |-> t.events, window |-> t.window,
                                    called |-> TRUE, outcome |-> outcome,
                                    fired |-> TRUE,
                                    output |-> compacted, threw |-> FALSE,
                                    returned |-> ReturnedId(t.op, t.input)]
                        /\ IF cfg.storageRef
                           THEN /\ store' = WriteBack(store, compacted, t.input)
                                /\ tasks' = Detach(rest)
                           ELSE /\ store' = store
                                /\ tasks' = rest
               ELSE /\ last' = [op |-> t.op, input |-> t.input,
                                events |-> t.events, window |-> t.window,
                                called |-> TRUE, outcome |-> outcome,
                                fired |-> FALSE,
                                output |-> t.input, threw |-> Rethrown(outcome),
                                returned |-> ReturnedId(t.op, t.input)]
                    /\ tasks' = rest
                    /\ UNCHANGED <<store, nextId, hist>>
    /\ UNCHANGED <<fnVars, reqVars, sseVars, cfg>>

-----------------------------------------------------------------------------
(* /run_sse: the ambient request scope and the session reads of a request *)

\* retryTrimPercent when the request gives none in [1, 100]: 12.5 %
DefaultRetryTrimPercent == 125

Body(mo, cl, tp) == [modelOverride |-> mo, contextLimit |-> cl, retryTrimPercent |-> tp]

\* request bodies: modelOverride (a model number), contextLimit and
\* retryTrimPercent (tenths of a percent)
Bodies ==
    { Body(None, None, None), Body(None, None, Some(1000)),
      Body(None, Some(5200), Some(500)), Body(None, Some(3000), Some(2000)),
      Body(None, Some(500), None) }

NoView == [pass |-> 0, events |-> <<>>, decided |-> FALSE, effectiveBudget |-> 0]

NoFirst == [len |-> 0, effectiveBudget |-> 0]

\* the model the last summarizer call of a request asked for (None: the
\* default model)
NoSummarizerCall == [called |-> FALSE, model |-> None]

IdleReq ==
    [pc |-> "idle", contextLimit |-> None, retryTrimPercent |-> None,
     modelOverride |-> None, tokenErrorRetried |-> FALSE,
     view |-> NoView, first |-> NoFirst, summarizer |-> NoSummarizerCall,
     \* how the last run of the handler was left
     exit |-> "none"]

\* a bug: the retryTrimPercent of the request is taken without the range test
SetGlobalsUnchecked(g, modelOverride, contextLimit, retryTrimPercent) ==
    [g EXCEPT
       !.modelOverride = modelOverride,
       !.requestContextLimit =
           IF IsPositiveNumber(contextLimit) THEN contextLimit ELSE None,
       !.retryTrimPercent =
           IF retryTrimPercent.some
           THEN retryTrimPercent ELSE Some(DefaultRetryTrimPercent)]

\* the three assignments that open the handler
SetGlobals(g, modelOverride, contextLimit, retryTrimPercent) ==
    [g EXCEPT
       !.modelOverride = modelOverride,
       !.requestContextLimit =
           IF IsPositiveNumber(contextLimit) THEN contextLimit ELSE None,
       !.retryTrimPercent =
           IF retryTrimPercent.some /\ retryTrimPercent.v >= 10
                                    /\ retryTrimPercent.v <= 1000
           THEN retryTrimPercent ELSE Some(DefaultRetryTrimPercent)]

\* a bug: the percentage is used as the factor, without the division by 100
FactorNotDivided(g) ==
    [g EXCEPT !.retryTokenBudgetFactor =
        Some(100 * (IF g.retryTrimPercent.some THEN g.retryTrimPercent.v
                    ELSE DefaultRetryTrimPercent))]

\* pct / 100: a percentage in tenths is that many thousandths
runSummariseOnTokenError(g) ==
    [g EXCEPT !.retryTokenBudgetFactor =
        Some(IF g.retryTrimPercent.some THEN g.retryTrimPercent.v
             ELSE DefaultRetryTrimPercent)]

\* the handler starts: globals set, then getSession is awaited
RunSseStart(r, bodies) ==
    /\ phase = "build"
    /\ req[r].pc = "idle"
    /\ \E body \in bodies :
          /\ globals' = SetGlobals(globals, body.modelOverride, body.contextLimit,
                                   body.retryTrimPercent)
          /\ req' = [req EXCEPT ![r] =
                        [IdleReq EXCEPT !.pc = "read",
                                        !.contextLimit = body.contextLimit,
                                        !.retryTrimPercent = body.retryTrimPercent,
                                        !.modelOverride = body.modelOverride]]
    /\ UNCHANGED <<store, nextId, fnVars, priority, sseVars, compVars>>

\* whether this read gets as far as the ranker
ReachesRanker(events, g, prio) ==
    /\ prio
    /\ Len(events) >= 4
    /\ SumTokens(events, 1) * 1000 > effectiveBudget(g)
    /\ Len(eventsToMessagesWithIndices(events).messages) > 3

RankerOutcomes(events, g, prio) ==
    IF ReachesRanker(events, g, prio)
    THEN {Throws} \cup
         { NoThrow(AscOf(S)) :
             S \in SUBSET (1..Len(eventsToMessagesWithIndices(events).messages)) }
    ELSE {NoThrow(<<>>)}

\* what the ranker does in a read through the stack: it throws, or selects
\* no message, one message, all but one, or all
StackRankerOutcomes(events, g, prio) ==
    IF ReachesRanker(events, g, prio)
    THEN LET m == Len(eventsToMessagesWithIndices(events).messages) IN
         {Throws} \cup {NoThrow(<<>>), NoThrow(AscOf(1..m))}
                  \cup { NoThrow(<<j>>) : j \in 1..m }
                  \cup { NoThrow(AscOf((1..m) \ {j})) : j \in 1..m }
    ELSE {NoThrow(<<>>)}

\* getSession of the trimming decorator resumes after inner.getSession and
\* returns its view
GetSessionReturn(r) ==
    /\ req[r].pc = "read"
    /\ \E ranker \in RankerOutcomes(store, globals, priority) :
          LET returned == TrimmingGetSession(store, globals, priority, ranker)
          IN  /\ req' = [req EXCEPT
                           ![r].pc = "pass",
                           ![r].view =
                               [pass |-> IF req[r].tokenErrorRetried THEN 2 ELSE 1,
                                events |-> returned,
                                decided |-> Len(store) >= 4,
                                effectiveBudget |-> effectiveBudget(globals)]]
              /\ store' = StoredAfterTrimming(store, returned)
    /\ UNCHANGED <<nextId, fnVars, globals, priority, sseVars, compVars>>

\* runner.runAsync reads the session through the session service
RunnerGetSession(r) ==
    /\ req[r].pc = "pass"
    /\ req' = [req EXCEPT ![r].pc = "read", ![r].view = NoView]
    /\ UNCHANGED <<store, nextId, fnVars, globals, priority, sseVars, compVars>>

\* the first token-limit error of the request, as an event or thrown
TokenLimitError(r) ==
    /\ req[r].pc = "pass"
    /\ ~req[r].tokenErrorRetried
    /\ globals' = runSummariseOnTokenError(globals)
    /\ req' = [req EXCEPT
                 ![r].tokenErrorRetried = TRUE,
                 ![r].first = [len |-> Len(req[r].view.events),
                               effectiveBudget |-> req[r].view.effectiveBudget]]
    /\ UNCHANGED <<store, nextId, fnVars, priority, sseVars, compVars>>

\* summarizerLlm.generateContentAsync, called by a compaction that a session
\* read or an append of the request started: override?.model ?? default
SummarizerCall(r) ==
    /\ req[r].pc \in {"read", "pass"}
    /\ req' = [req EXCEPT ![r].summarizer =
                                [called |-> TRUE, model |-> globals.modelOverride]]
    /\ UNCHANGED <<store, nextId, fnVars, globals, priority, sseVars, compVars>>

\* the finally block of the handler
RunSseFinally(r) ==
    /\ req[r].pc = "pass"
    /\ globals' = NoGlobals
    /\ req' = [req EXCEPT ![r] = [IdleReq EXCEPT !.exit = "finally"]]
    /\ UNCHANGED <<store, nextId, fnVars, priority, sseVars, compVars>>

\* the handler run for a session the store does not have: the globals are
\* set, getSession returns null and the handler returns 404, before its try
RunSseNotFound(r, bodies) ==
    /\ phase = "build"
    /\ req[r].pc = "idle"
    /\ \E body \in bodies :
          globals' = SetGlobals(globals, body.modelOverride, body.contextLimit,
                                body.retryTrimPercent)
    /\ req' = [req EXCEPT ![r] = [IdleReq EXCEPT !.exit = "notFound"]]
    /\ UNCHANGED <<store, nextId, fnVars, priority, sseVars, compVars>>

\* the handler run for an agent that fails to load: the globals are set, the
\* session is read and getRunner rejects, before the try of the handler
RunSseAgentLoadFails(r, bodies) ==
    /\ phase = "build"
    /\ req[r].pc = "idle"
    /\ \E body \in bodies :
          globals' = SetGlobals(globals, body.modelOverride, body.contextLimit,
                                body.retryTrimPercent)
    /\ req' = [req EXCEPT ![r] = [IdleReq EXCEPT !.exit = "agentLoad"]]
    /\ UNCHANGED <<store, nextId, fnVars, priority, sseVars, compVars>>

-----------------------------------------------------------------------------
(* /run_sse: the streaming loop *)

MaxRunnerEvents == 3

\* String.prototype.startsWith
StartsWith(text, prefix) ==
    /\ Len(prefix) <= Len(text)
    /\ SubSeq(text, 1, Len(prefix)) = prefix

\* String.prototype.slice(n)
Slice(text, n) == SubSeq(text, n + 1, Len(text))

ErrorMessages == {"Prompt too long (num_ctx exceeded)", "connection reset"}

\* the messages among ErrorMessages that the two regular expressions match
isTokenLimitError(msg) == msg = "Prompt too long (num_ctx exceeded)"

ThoughtPart(t) == [thought |-> TRUE, text |-> t]

PlainPart(t) == [thought |-> FALSE, text |-> t]

\* a runner event without errorMessage: its parts, and what stringifyContent
\* returns for it (None for null or undefined)
ContentEvent(parts, stringified) ==
    [errorMessage |-> "", parts |-> parts, stringified |-> stringified]

ErrorEvent(msg) == [errorMessage |-> msg, parts |-> <<>>, stringified |-> None]

RunnerEvents ==
    { ContentEvent(<<ThoughtPart(<<"t">>)>>, None),
      ContentEvent(<<ThoughtPart(<<"t">>), ThoughtPart(<<"u">>)>>, None),
      ContentEvent(<<PlainPart(<<"a">>)>>, Some(<<"a">>)),
      ContentEvent(<<PlainPart(<<"a">>), PlainPart(<<"b">>)>>, Some(<<"a", "b">>)),
      ContentEvent(<<PlainPart(<<"b">>)>>, None),
      ContentEvent(<<ThoughtPart(<<"t">>), PlainPart(<<"a">>)>>, None),
      ContentEvent(<<ThoughtPart(<<"t">>), PlainPart(<<"a">>)>>, Some(<<"t", "a">>)),
      ContentEvent(<<ThoughtPart(<<"t">>), ThoughtPart(<<"u">>),
                     PlainPart(<<"a">>), PlainPart(<<"b">>)>>, None),
      ContentEvent(<<>>, None) }
    \cup { ErrorEvent(msg) : msg \in ErrorMessages }

\* parts.filter(keep).map((p) => p?.text ?? '').join('')
RECURSIVE JoinText(_, _, _)
JoinText(parts, i, thought) ==
    IF i > Len(parts) THEN <<>>
    ELSE (IF parts[i].thought = thought THEN parts[i].text ELSE <<>>)
         \o JoinText(parts, i + 1, thought)

thoughtText(event) == JoinText(event.parts, 1, TRUE)

\* stringifyContent(event) ?? the text of the parts that are not thoughts
contentText(event) ==
    IF event.stringified.some THEN event.stringified.v
    ELSE JoinText(event.parts, 1, FALSE)

\* a bug: the new text is always sent whole
WholeText(new, old) == new

\* a bug: the new text is sliced without the startsWith test
SliceAlways(new, old) == Slice(new, Len(old))

\* new.startsWith(old) ? new.slice(old.length) : new
Delta(new, old) == IF StartsWith(new, old) THEN Slice(new, Len(old)) ELSE new

ContentFrame(text) == [type |-> "content", text |-> text, done |-> FALSE]

ThinkingFrame(text) == [type |-> "thinking", text |-> text, done |-> FALSE]

\* { thinking: { text: '', metadata: { vscodeReasoningDone: true } } }
ThinkingDoneFrame == [type |-> "thinking", text |-> <<>>, done |-> TRUE]

ErrorFrame(msg) == [type |-> "error", text |-> msg, done |-> FALSE]

NoStream ==
    [pc |-> "init", prevText |-> <<>>, prevThoughtText |-> <<>>,
     thinkingActive |-> FALSE, tokenErrorRetried |-> FALSE,
     runnerCalls |-> 0, handled |-> 0,
     \* the record of what the runner did, kept for the claims
     finalContent |-> <<>>, finalThought |-> <<>>,
     extending |-> TRUE, tokenErrorsIn |-> 0,
     \* the number of frames written when the retry began (-1: no retry), the
     \* number of non-error events handled, and how the stream ended
     retryAt |-> -1, contentEvents |-> 0, ended |-> "open"]

\* the frames the else branch of the loop body writes for one event, and the
\* locals after it
HandleContent(l, event) ==
    LET tt == thoughtText(event)
        ct == contentText(event)
        thoughtDelta == IF tt # l.prevThoughtText THEN Delta(tt, l.prevThoughtText)
                        ELSE <<>>
        f1 == IF thoughtDelta # <<>> THEN <<ThinkingFrame(thoughtDelta)>> ELSE <<>>
        active1 == l.thinkingActive \/ thoughtDelta # <<>>
        f2 == IF ct # <<>> /\ active1 THEN <<ThinkingDoneFrame>> ELSE <<>>
        active2 == IF ct # <<>> /\ active1 THEN FALSE ELSE active1
        delta == IF ct # l.prevText THEN Delta(ct, l.prevText) ELSE <<>>
        f3 == IF delta # <<>> THEN <<ContentFrame(delta)>> ELSE <<>>
    IN  [frames |-> f1 \o f2 \o f3,
         locals |-> [l EXCEPT !.prevThoughtText = tt, !.prevText = ct,
                              !.thinkingActive = active2]]

\* the record of what the runner did, after a non-error event
Noted(l, before, event) ==
    [l EXCEPT !.finalContent = contentText(event),
              !.finalThought = thoughtText(event),
              !.extending = /\ before.extending
                            /\ StartsWith(contentText(event), before.finalContent)
                            /\ StartsWith(thoughtText(event), before.finalThought)]

\* a bug: a token-limit error is retried however often it occurs
RetryAlways(l, msg) == isTokenLimitError(msg)

\* isTokenLimitError(message) && !tokenErrorRetried
MayRetry(l, msg) == isTokenLimitError(msg) /\ ~l.tokenErrorRetried

\* the handler reaches runLoop for the first time
SseOpen ==
    /\ sse.pc = "init"
    /\ \E body \in Bodies :
          globals' = SetGlobals(globals, body.modelOverride, body.contextLimit,
                                body.retryTrimPercent)
    /\ sse' = [NoStream EXCEPT !.pc = "loop1", !.runnerCalls = 1]
    /\ frames' = <<>>
    /\ UNCHANGED <<store, nextId, fnVars, priority, req, compVars>>

InLoop == sse.pc \in {"loop1", "loop2", "loopC"}

\* one iteration of the for-await loop of runLoop
RunnerEvent ==
    /\ InLoop
    /\ sse.handled < MaxRunnerEvents
    /\ \E event \in RunnerEvents :
          LET l == [sse EXCEPT !.handled = sse.handled + 1] IN
          IF event.errorMessage # ""
          THEN IF MayRetry(sse, event.errorMessage)
               THEN \* return 'retry'; the caller clears prevText and calls runLoop
                    /\ sse' = [l EXCEPT !.tokenErrorRetried = TRUE,
                                        !.prevText = <<>>,
                                        !.prevThoughtText = <<>>,
                                        !.thinkingActive = FALSE,
                                        !.pc = "loop2",
                                        !.runnerCalls = sse.runnerCalls + 1,
                                        !.tokenErrorsIn = sse.tokenErrorsIn + 1,
                                        !.retryAt = Len(frames)]
                    /\ globals' = runSummariseOnTokenError(globals)
                    /\ frames' = frames
               ELSE /\ sse' = [l EXCEPT !.tokenErrorsIn =
                                   IF isTokenLimitError(event.errorMessage)
                                   THEN sse.tokenErrorsIn + 1 ELSE sse.tokenErrorsIn]
                    /\ frames' = Append(frames, ErrorFrame(event.errorMessage))
                    /\ globals' = globals
          ELSE LET h == HandleContent(l, event) IN
               /\ sse' = [Noted(h.locals, sse, event) EXCEPT
                              !.contentEvents = sse.contentEvents + 1]
               /\ frames' = frames \o h.frames
               /\ globals' = globals
    /\ UNCHANGED <<store, nextId, fnVars, priority, req, compVars>>

\* the runner's iterator ends: runLoop closes an open reasoning segment and
\* returns 'done'; the finally block runs and the response ends
RunnerDone ==
    /\ InLoop
    /\ frames' = IF sse.thinkingActive THEN Append(frames, ThinkingDoneFrame)
                  ELSE frames
    /\ sse' = [sse EXCEPT !.pc = "closed", !.ended = "done"]
    /\ globals' = NoGlobals
    /\ UNCHANGED <<store, nextId, fnVars, priority, req, compVars>>

\* the runner's iterator throws
RunnerThrows ==
    /\ InLoop
    /\ \E msg \in ErrorMessages :
          LET l == [sse EXCEPT !.tokenErrorsIn =
                       IF isTokenLimitError(msg) THEN sse.tokenErrorsIn + 1
                       ELSE sse.tokenErrorsIn] IN
          IF sse.pc # "loopC" /\ MayRetry(sse, msg)
          THEN \* the catch block retries
               /\ sse' = [l EXCEPT !.tokenErrorRetried = TRUE, !.prevText = <<>>,
                                   !.pc = "loopC",
                                   !.runnerCalls = sse.runnerCalls + 1,
                                   !.retryAt = Len(frames)]
               /\ globals' = runSummariseOnTokenError(globals)
               /\ frames' = frames
          ELSE \* the error is written; finally; the response ends
               /\ sse' = [l EXCEPT !.pc = "closed", !.ended = "thrown"]
               /\ frames' = Append(frames, ErrorFrame(msg))
               /\ globals' = NoGlobals
    /\ UNCHANGED <<store, nextId, fnVars, priority, req, compVars>>

-----------------------------------------------------------------------------
(* The inner store and the calls of the trimming functions *)

NoCall == [op |-> "none"]

\* InMemorySessionService.appendEvent: the event is pushed onto the stored list
AppendEvent(shape) ==
    /\ phase = "build"
    /\ \A r \in DOMAIN req : req[r].pc = "idle"
    /\ Len(store) < MaxEvents
    /\ store' = Append(store, NewEvent(nextId, shape))
    /\ nextId' = nextId + 1
    /\ UNCHANGED <<fnVars, reqVars, sseVars, compVars>>

\* budgets handed to trimEventsFifo, in tokens
FifoBudgets == {-1, 0, 1, 2, 399, 400, 1000, 1002, 2000}

CallTrimEventsFifo ==
    /\ phase = "build"
    /\ \E b \in FifoBudgets :
          call' = [op |-> "fifo", events |-> store, budget |-> b * 1000,
                   result |-> trimEventsFifo(store, b * 1000)]
    /\ phase' = "called"
    /\ UNCHANGED <<store, nextId, reqVars, sseVars, compVars>>

CallTrimEventsByRank ==
    /\ phase = "build"
    /\ \E selected \in Selections(Len(eventsToMessagesWithIndices(store).messages)) :
          call' = [op |-> "rank", events |-> store, selected |-> selected,
                   result |-> trimEventsByRank(store, TRUE, selected)]
    /\ phase' = "called"
    /\ UNCHANGED <<store, nextId, reqVars, sseVars, compVars>>

\* the request scopes getSession of the trimming decorator is called in:
\* effective budgets of 1800 (default), 1000 (the floor), 2400 and 3000 tokens
TrimScopes ==
    { SetGlobals(NoGlobals, None, cl, None) :
        cl \in {None, Some(3000), Some(4600), Some(5200)} }

\* getSession of the trimming decorator on the stored list, with the ranker
\* there or not
CallTrimmingGetSession ==
    /\ phase = "build"
    /\ \E g \in TrimScopes, prio \in BOOLEAN :
       \E ranker \in StackRankerOutcomes(store, g, prio) :
          call' = [op |-> "getSession", events |-> store,
                   budget |-> effectiveBudget(g), prio |-> prio,
                   ranker |-> ranker,
                   result |-> TrimmingGetSession(store, g, prio, ranker)]
    /\ phase' = "called"
    /\ UNCHANGED <<store, nextId, reqVars, sseVars, compVars>>

\* maybeSummarizeEvents on the stored list
CallMaybeSummarizeEvents ==
    /\ phase = "build"
    /\ \E llm \in LlmOutcomes :
          call' = [op |-> "summarize", events |-> store, llm |-> llm,
                   result |-> maybeSummarizeEvents(store, llm)]
    /\ phase' = "called"
    /\ UNCHANGED <<store, nextId, reqVars, sseVars, compVars>>

Return ==
    /\ phase = "called"
    /\ phase' = "build"
    /\ call' = NoCall
    /\ UNCHANGED <<store, nextId, reqVars, sseVars, compVars>>

InitFn ==
    /\ store = <<>>
    /\ nextId = 1
    /\ phase = "build"
    /\ call = NoCall
    /\ globals = NoGlobals
    /\ priority = FALSE
    /\ req = [r \in {"A"} |-> IdleReq]
    /\ sse = NoStream
    /\ frames = <<>>
    /\ cfg = DefaultCfg
    /\ tasks = <<>>
    /\ last = NoRun
    /\ hist = NoHist

NextFn ==
    \/ \E shape \in EventPool : AppendEvent(shape)
    \/ CallTrimEventsFifo
    \/ CallTrimEventsByRank
    \/ CallTrimmingGetSession
    \/ CallMaybeSummarizeEvents
    \/ Return

SpecFn == InitFn /\ [][NextFn]_vars

-----------------------------------------------------------------------------
(* Claims about the trimming functions *)

Suffix(events, k) == SubSeq(events, k, Len(events))

\* the suffix from position k fits the budget
Fits(events, k, budget) == SumTokens(events, k) * 1000 <= budget

\* C1: trimEventsFifo of a non-empty list returns the longest suffix whose
\* summed estimate is within the budget, exactly the last event when that event
\* alone exceeds the budget, and never the empty list.
C1_FifoLongestSuffix ==
    (call.op = "fifo" /\ Len(call.events) > 0) =>
        LET n == Len(call.events)
            r == call.result
            k == n - Len(r) + 1
        IN  /\ Len(r) >= 1
            /\ r = Suffix(call.events, k)
            /\ IF Fits(call.events, n, call.budget)
               THEN /\ Fits(call.events, k, call.budget)
                    /\ \A j \in 1..(k - 1) : ~Fits(call.events, j, call.budget)
               ELSE r = <<call.events[n]>>

\* a FIFO call that had to cut, and one whose last event alone is over budget
C1_Witness ==
    /\ call.op = "fifo"
    /\ Len(call.events) >= 3
    /\ Len(call.result) = 2
    /\ SumTokens(call.events, 1) * 1000 > call.budget

C1_WitnessKeepOne ==
    /\ call.op = "fifo"
    /\ Len(call.events) >= 2
    /\ ~Fits(call.events, Len(call.events), call.budget)
    /\ Len(call.result) = 1

PositionsOf(events, e) == { i \in 1..Len(events) : events[i] = e }

\* C2: trimEventsByRank returns a subsequence of its input in the original
\* order, whatever subset the ranker selected and in whatever order.
C2_RankSubsequence ==
    call.op = "rank" =>
        LET r == call.result
        IN  /\ \A k \in 1..Len(r) : PositionsOf(call.events, r[k]) # {}
            /\ \A k \in 1..(Len(r) - 1) :
                  \E i \in PositionsOf(call.events, r[k]) :
                  \E j \in PositionsOf(call.events, r[k + 1]) : i < j

\* a selection returned out of message order, over a list with an unprojected
\* event, lifted to two or more events
C2_Witness ==
    /\ call.op = "rank"
    /\ Len(call.selected) >= 2
    /\ call.selected[1] > call.selected[2]
    /\ Len(eventsToMessagesWithIndices(call.events).messages) < Len(call.events)
    /\ Len(call.result) = Len(call.selected)
    /\ Len(call.result) < Len(call.events)

-----------------------------------------------------------------------------
(* One request at a time over a store that fills between requests *)

Init ==
    /\ store = <<>>
    /\ nextId = 1
    /\ phase = "build"
    /\ call = NoCall
    /\ globals = NoGlobals
    /\ priority \in BOOLEAN
    /\ req = [r \in {"A"} |-> IdleReq]
    /\ sse = NoStream
    /\ frames = <<>>
    /\ cfg = DefaultCfg
    /\ tasks = <<>>
    /\ last = NoRun
    /\ hist = NoHist

Next ==
    \/ \E shape \in StoredPool : AppendEvent(shape)
    \/ RunSseStart("A", Bodies)
    \/ GetSessionReturn("A")
    \/ RunnerGetSession("A")
    \/ TokenLimitError("A")
    \/ RunSseFinally("A")
    \/ RunSseNotFound("A", Bodies)
    \/ RunSseAgentLoadFails("A", Bodies)

Spec == Init /\ [][Next]_vars

\* C3: getSession of the trimming decorator leaves the list held by the store
\* as it was, whatever it returns.
C3_TrimmingNeverWritesStore ==
    [][(\E r \in DOMAIN req : req'[r].view # req[r].view) => store' = store]_vars

\* a read that returned fewer events than the store holds
C3_Witness ==
    \E r \in DOMAIN req :
        /\ req[r].view.pass >= 1
        /\ Len(req[r].view.events) < Len(store)

\* C5 as stated: every history returned on the retry pass is shorter than the
\* one returned on the first pass.
C5_RetryHistoryShorter ==
    \A r \in DOMAIN req :
        req[r].view.pass = 2 => Len(req[r].view.events) < req[r].first.len

\* C5 as amended: on the retry pass the effective budget is never above the
\* first pass's, and with the ranker unavailable the history returned is never
\* longer than the one returned on the first pass.
C5_RetryHistoryNotLonger ==
    \A r \in DOMAIN req :
        req[r].view.pass = 2 =>
            /\ req[r].view.effectiveBudget <= req[r].first.effectiveBudget
            /\ ~priority => Len(req[r].view.events) <= req[r].first.len

\* a retry pass whose budget is tighter and whose FIFO history is shorter
C5_Witness ==
    \E r \in DOMAIN req :
        /\ ~priority
        /\ req[r].view.pass = 2
        /\ req[r].view.effectiveBudget < req[r].first.effectiveBudget
        /\ Len(req[r].view.events) < req[r].first.len
        /\ req[r].first.len < Len(store)

-----------------------------------------------------------------------------
(* One /run_sse stream *)

InitSse ==
    /\ store = <<>>
    /\ nextId = 1
    /\ phase = "build"
    /\ call = NoCall
    /\ globals = NoGlobals
    /\ priority = FALSE
    /\ req = [r \in {"A"} |-> IdleReq]
    /\ sse = NoStream
    /\ frames = <<>>
    /\ cfg = DefaultCfg
    /\ tasks = <<>>
    /\ last = NoRun
    /\ hist = NoHist

NextSse ==
    \/ SseOpen
    \/ RunnerEvent
    \/ RunnerDone
    \/ RunnerThrows

SpecSse == InitSse /\ [][NextSse]_vars

\* the texts of the frames of one type that carry text, concatenated
RECURSIVE ConcatDeltas(_, _, _)
ConcatDeltas(fs, i, type) ==
    IF i > Len(fs) THEN <<>>
    ELSE (IF fs[i].type = type /\ ~fs[i].done THEN fs[i].text ELSE <<>>)
         \o ConcatDeltas(fs, i + 1, type)

TokenErrorFrames ==
    Cardinality({i \in DOMAIN frames :
                   frames[i].type = "error" /\ isTokenLimitError(frames[i].text)})

\* C4: the runner is invoked at most twice in one request, and every
\* token-limit error the runner emits or throws, but the one that the single
\* retry consumed, is written to the client as an error frame.
C4_RetrySingleShot ==
    /\ sse.runnerCalls <= 2
    /\ TokenErrorFrames =
         sse.tokenErrorsIn - (IF sse.tokenErrorRetried THEN 1 ELSE 0)

\* a retry pass that itself hit a token-limit error, which was written
C4_Witness ==
    /\ sse.pc = "closed"
    /\ sse.runnerCalls = 2
    /\ sse.tokenErrorsIn = 2
    /\ TokenErrorFrames = 1

\* C8 as stated: for every stream, when it closes the content deltas
\* concatenate to the final contentText and the thinking deltas to the final
\* thoughtText.
C8_DeltaPrefixLaw ==
    sse.pc = "closed" =>
        /\ ConcatDeltas(frames, 1, "content") = sse.finalContent
        /\ ConcatDeltas(frames, 1, "thinking") = sse.finalThought

\* C8, amended: in a stream without a retry in which the contentText and the
\* thoughtText of every event start with those of the event before, the
\* content deltas sent so far concatenate to the latest contentText and the
\* thinking deltas to the latest thoughtText.
C8_DeltaPrefixLawExtending ==
    (sse.extending /\ ~sse.tokenErrorRetried) =>
        /\ ConcatDeltas(frames, 1, "content") = sse.finalContent
        /\ ConcatDeltas(frames, 1, "thinking") = sse.finalThought

\* a closed stream that grew its content and its reasoning in two steps each
C8_Witness ==
    /\ sse.pc = "closed"
    /\ sse.extending /\ ~sse.tokenErrorRetried
    /\ sse.finalContent = <<"a", "b">>
    /\ sse.finalThought = <<"t", "u">>
    /\ Cardinality({i \in DOMAIN frames : frames[i].type = "content"}) = 2
    /\ Cardinality({i \in DOMAIN frames :
                       frames[i].type = "thinking" /\ ~frames[i].done}) = 2

\* C9 as stated: when the stream has closed, every thinking frame with text is
\* followed by a frame that closes the reasoning segment.
C9_ReasoningClosed ==
    sse.pc = "closed" =>
        \A i \in DOMAIN frames :
            (frames[i].type = "thinking" /\ ~frames[i].done) =>
                \E j \in DOMAIN frames :
                    j > i /\ frames[j].type = "thinking" /\ frames[j].done

-----------------------------------------------------------------------------
(* Two concurrent /run_sse requests over one session *)

Requests == {"A", "B"}

AmbientBodies ==
    { Body(Some(1), Some(5200), Some(500)), Body(Some(2), None, None),
      Body(None, Some(3000), Some(2000)) }

InitAmbient ==
    /\ store = [i \in 1..MaxEvents |-> NewEvent(i, BigEvent)]
    /\ nextId = MaxEvents + 1
    /\ phase = "build"
    /\ call = NoCall
    /\ globals = NoGlobals
    /\ priority = FALSE
    /\ req = [r \in Requests |-> IdleReq]
    /\ sse = NoStream
    /\ frames = <<>>
    /\ cfg = DefaultCfg
    /\ tasks = <<>>
    /\ last = NoRun
    /\ hist = NoHist

NextAmbient ==
    \E r \in Requests :
        \/ RunSseStart(r, AmbientBodies)
        \/ GetSessionReturn(r)
        \/ SummarizerCall(r)
        \/ RunnerGetSession(r)
        \/ TokenLimitError(r)
        \/ RunSseFinally(r)

SpecAmbient == InitAmbient /\ [][NextAmbient]_vars

\* the scope a request would see in its first or second pass if the scope
\* were local to the request
OwnScope(r, pass) ==
    LET own == SetGlobals(NoGlobals, req[r].modelOverride, req[r].contextLimit,
                          req[r].retryTrimPercent)
    IN  IF pass = 2 THEN runSummariseOnTokenError(own) ELSE own

\* C6 as stated: every session read of a request is trimmed to the budget its
\* own contextLimit, retryTrimPercent and retry state give, and every
\* summarizer call of a request uses its own modelOverride, whatever the other
\* request does.
C6_AmbientScopeRequestLocal ==
    \A r \in DOMAIN req :
        /\ req[r].view.pass > 0 =>
               req[r].view.effectiveBudget =
                   effectiveBudget(OwnScope(r, req[r].view.pass))
        /\ req[r].summarizer.called =>
               req[r].summarizer.model = req[r].modelOverride

-----------------------------------------------------------------------------
(* The compacting decorator over the in-memory store *)

Cfgs ==
    { DefaultCfg, Cfg(3, 1, 3, TRUE), Cfg(3, 0, 3, TRUE), Cfg(3, 2, 4, TRUE),
      Cfg(2, 0, 2, TRUE), Cfg(2, 1, 2, TRUE), Cfg(2, 2, 4, TRUE),
      Cfg(1, 1, 2, TRUE), Cfg(1, 0, 1, TRUE), Cfg(2, 0, 2, FALSE) }

InitCompact ==
    /\ store = <<>>
    /\ nextId = 1
    /\ phase = "build"
    /\ call = NoCall
    /\ globals = NoGlobals
    /\ priority = FALSE
    /\ req = [r \in {"A"} |-> IdleReq]
    /\ sse = NoStream
    /\ frames = <<>>
    /\ cfg \in Cfgs
    /\ tasks = <<>>
    /\ last = NoRun
    /\ hist = NoHist

NextCompact ==
    \/ CompactingAppendEvent
    \/ CompactingGetSession
    \/ SummarizerSettles

SpecCompact == InitCompact /\ [][NextCompact]_vars

\* C7 as stated: every appended event is in the stored list, or lay in a
\* compacted window whose summary event is in the stored list.
C7_NoAppendLost ==
    \A id \in hist.appended :
        \/ id \in Ids(store)
        \/ \E p \in hist.covers : p[2] = id /\ p[1] \in Ids(store)

\* C10: the window of every runCompaction call is null exactly when
\* floor(n / interval) = 0, and otherwise ends at floor(n / interval) * interval
\* and starts at max(0, end - interval - overlap); a call whose window is null
\* or smaller than minEventsToCompact returns null without calling the
\* summarizer, so every suspended call has a window of at least that size.
C10_CompactionWindow ==
    LET Formula(n, w) ==
            LET fullWindows == n \div cfg.compactionInterval IN
            /\ w.null <=> fullWindows = 0
            /\ ~w.null =>
                 /\ w.end = fullWindows * cfg.compactionInterval
                 /\ w.start = Max(0, w.end - cfg.compactionInterval
                                          - cfg.overlapSize)
        TooSmall(w) == w.null \/ w.end - w.start < cfg.minEventsToCompact
    IN  /\ last.op # "none" =>
             /\ Formula(Len(last.input), last.window)
             /\ TooSmall(last.window) =>
                    ~last.called /\ ~last.fired /\ last.output = last.input
        /\ \A k \in DOMAIN tasks :
             /\ Formula(Len(tasks[k].input), tasks[k].window)
             /\ ~TooSmall(tasks[k].window)

\* a compaction over a window that the overlap moved and that starts after
\* the first event
C10_Witness ==
    /\ last.fired
    /\ cfg.overlapSize > 0
    /\ last.window.start > 0
    /\ last.window.end = Len(last.input)

\* a call that returned null because its window was too small
C10_WitnessTooSmall ==
    /\ last.op # "none"
    /\ ~last.window.null
    /\ last.window.end - last.window.start < cfg.minEventsToCompact
    /\ ~last.called

-----------------------------------------------------------------------------
(* The decorator stack, one call at a time: trimming over compacting over the
   in-memory store *)

\* runCompaction run to its end, the summarizer settling with `outcome`; the
\* summary event, if one is made, gets the id `id`
runCompaction(op, events, c, outcome, id) ==
    IF ~CallsSummarizer(events, c) THEN Declined(op, events, c)
    ELSE LET window == computeCompactionWindow(Len(events), c.compactionInterval,
                                               c.overlapSize)
             toCompact == SliceEvents(events, window.start, window.end)
         IN  [op |-> op, input |-> events, events |-> events, window |-> window,
              called |-> TRUE, outcome |-> outcome,
              fired |-> outcome = "summary",
              output |-> IF outcome = "summary"
                         THEN Splice(events, window, SummaryEvent(id, toCompact))
                         ELSE events,
              threw |-> Rethrown(outcome),
              returned |-> ReturnedId(op, events)]

\* the outcomes of the summarizer for a call of runCompaction on `events`
OutcomesFor(events, c) ==
    IF CallsSummarizer(events, c)
    THEN LET window == computeCompactionWindow(Len(events), c.compactionInterval,
                                               c.overlapSize)
         IN  SummarizerOutcomes(SliceEvents(events, window.start, window.end))
    ELSE {"none"}

\* the summary events made so far and the events each stands for
Summarized(h, run, id) ==
    IF ~run.fired THEN h
    ELSE LET toCompact == SliceEvents(run.input, run.window.start, run.window.end)
             covered == Ids(toCompact) \cup
                        { p[2] : p \in { q \in h.covers : q[1] \in Ids(toCompact) } }
         IN  [h EXCEPT !.summaries = @ \cup {id},
                       !.covers = @ \cup { <<id, x>> : x \in covered }]

\* the record of an appendEvent on a store without the hatch: the event is
\* appended by the inner store and no compaction is tried
Forwarded(events) ==
    [NoRun EXCEPT !.op = "append", !.input = events, !.events = events,
                  !.output = events, !.returned = ReturnedId("append", events)]

\* appendEvent through the stack: the trimming decorator forwards it, the
\* compacting decorator appends and then compacts the stored list
StackAppend(limit) ==
    /\ Cardinality(hist.appended) < limit
    /\ \E shape \in {BigEvent, BlankEvent} :
          LET stored == Append(store, NewEvent(nextId, shape)) IN
          \E outcome \in (IF cfg.storageRef THEN OutcomesFor(stored, cfg)
                           ELSE {"none"}) :
            LET run == runCompaction("append", stored, cfg, outcome, nextId + 1) IN
            /\ run.called => Cardinality(hist.summaries) < MaxSummaries
            /\ store' = IF cfg.storageRef /\ run.fired
                        THEN WriteBack(stored, run.output, stored) ELSE stored
            /\ last' = IF cfg.storageRef THEN run ELSE Forwarded(stored)
            /\ hist' = Summarized([hist EXCEPT !.appended = @ \cup {nextId}],
                                  run, nextId + 1)
            /\ nextId' = IF run.fired THEN nextId + 2 ELSE nextId + 1
    /\ UNCHANGED <<fnVars, reqVars, sseVars, cfg, tasks>>

\* a bug in the wiring: the trimming decorator wraps the base store
TrimmingOverBase(stored, compacted) == stored

\* the list inner.getSession gives the trimming decorator: sessionService is
\* the compacting service when the trimming service is made around it
InnerOfTrimming(stored, compacted) == compacted

StackAppendEvent == StackAppend(MaxEvents)

\* getSession through the stack: the compacting decorator compacts what the
\* store returned and persists it, the trimming decorator trims the result
StackGetSession ==
    /\ \E outcome \in (IF Len(store) # 0 THEN OutcomesFor(store, cfg)
                        ELSE {"none"}) :
          LET run == runCompaction("get", store, cfg, outcome, nextId) IN
          /\ run.called => Cardinality(hist.summaries) < MaxSummaries
          /\ \E ranker \in StackRankerOutcomes(InnerOfTrimming(store, run.output),
                                                 globals, priority) :
                LET returned == TrimmingGetSession(InnerOfTrimming(store, run.output),
                                                   globals, priority, ranker)
                    persisted == IF cfg.storageRef /\ run.fired
                                 THEN WriteBack(store, run.output, store)
                                 ELSE store
                IN  /\ store' = StoredAfterTrimming(persisted, returned)
                    /\ req' = [req EXCEPT
                                 !["A"].view =
                                     [pass |-> 1, events |-> returned,
                                      decided |-> Len(run.output) >= 4,
                                      effectiveBudget |-> effectiveBudget(globals)]]
          /\ last' = IF Len(store) # 0 THEN run ELSE last
          /\ hist' = Summarized(hist, run, nextId)
          /\ nextId' = IF run.fired THEN nextId + 1 ELSE nextId
    /\ UNCHANGED <<fnVars, globals, priority, sseVars, cfg, tasks>>

\* the request scope of a request with contextLimit 3000
Scope3000 == SetGlobals(NoGlobals, None, Some(3000), None)

\* how the stack is set up: the options of the compacting decorator, the
\* scope the calls are made in, and whether the priority ranker is there
StackSetups ==
    { <<DefaultCfg, NoGlobals, FALSE>>,
      <<DefaultCfg, Scope3000, TRUE>>,
      <<Cfg(3, 1, 3, TRUE), Scope3000, TRUE>>,
      <<Cfg(2, 0, 2, TRUE), Scope3000, TRUE>>,
      <<Cfg(2, 0, 2, TRUE), NoGlobals, FALSE>>,
      <<Cfg(1, 0, 1, TRUE), Scope3000, FALSE>>,
      <<Cfg(2, 0, 2, FALSE), Scope3000, FALSE>> }

InitStack ==
    /\ store = <<>>
    /\ nextId = 1
    /\ phase = "build"
    /\ call = NoCall
    /\ \E setup \in StackSetups :
          cfg = setup[1] /\ globals = setup[2] /\ priority = setup[3]
    /\ req = [r \in {"A"} |-> IdleReq]
    /\ sse = NoStream
    /\ frames = <<>>
    /\ tasks = <<>>
    /\ last = NoRun
    /\ hist = NoHist

NextStack ==
    \/ StackAppendEvent
    \/ StackGetSession

SpecStack == InitStack /\ [][NextStack]_vars

\* C11: a list returned by runCompaction is events[0..start), one summary
\* event, events[end..n): its length is n - (end - start) + 1, the events
\* outside the window are the same events in the same order, and the event in
\* between is a new event of author "user".
C11_CompactionSplice ==
    last.fired =>
        LET n == Len(last.events)
            w == last.window
            out == last.output
            shift == (w.end - w.start) - 1
        IN  /\ Len(out) = n - (w.end - w.start) + 1
            /\ \A i \in 1..w.start : out[i] = last.events[i]
            /\ \A i \in (w.end + 1)..n : out[i - shift] = last.events[i]
            /\ out[w.start + 1].id \in hist.summaries
            /\ out[w.start + 1].id \notin Ids(last.events)
            /\ out[w.start + 1].author = "user"

\* a compaction of a window in the middle: events are left before and after it
C11_Witness ==
    /\ last.fired
    /\ last.window.start > 0
    /\ last.window.end < Len(last.events)
    /\ Len(last.output) = Len(last.events) - 1

\* C12 as stated: a list returned by runCompaction is shorter than the input
\* by at least overlap + interval - 1 events.
C12_ShrinksByIntervalAndOverlap ==
    last.fired =>
        Len(last.events) - Len(last.output)
            >= cfg.overlapSize + cfg.compactionInterval - 1

\* C12, amended: a list returned by runCompaction is shorter than the input by
\* exactly (end - start) - 1 = min(end, interval + overlap) - 1 events, which
\* is at least overlap + interval - 1 when the window is not cut off at the
\* start of the list (end >= interval + overlap).
C12_ShrinksByWindow ==
    last.fired =>
        LET shrink == Len(last.events) - Len(last.output)
            full == cfg.compactionInterval + cfg.overlapSize
            w == last.window
        IN  /\ shrink = (w.end - w.start) - 1
            /\ shrink = (IF w.end < full THEN w.end ELSE full) - 1
            /\ w.end >= full => shrink >= full - 1

\* a compaction whose window was cut off at the start of the list
C12_Witness ==
    /\ last.fired
    /\ last.window.start = 0
    /\ last.window.end < cfg.compactionInterval + cfg.overlapSize
    /\ Len(last.events) - Len(last.output) = last.window.end - 1

NonDecreasing(events) ==
    \A i \in 1..(Len(events) - 1) : events[i].timestamp <= events[i + 1].timestamp

\* C13: with events appended in non-decreasing timestamps, the list held in
\* the store, the list returned by every compaction and the list returned by
\* getSession of the stack have non-decreasing timestamps, and a summary event
\* carries the timestamp of the last event of its window.
C13_Chronology ==
    /\ NonDecreasing(store)
    /\ NonDecreasing(last.output)
    /\ NonDecreasing(req["A"].view.events)
    /\ last.fired =>
          last.output[last.window.start + 1].timestamp
              = last.events[last.window.end].timestamp

\* a read through the stack that trimmed a list holding a summary event and
\* events appended before and after it, with events of equal and of
\* different timestamps in the store
C13_Witness ==
    /\ req["A"].view.pass = 1
    /\ Len(req["A"].view.events) >= 2
    /\ Len(req["A"].view.events) < Len(store)
    /\ \E i \in 2..(Len(store) - 1) :
          /\ store[i].id \in hist.summaries
          /\ store[i - 1].id \in hist.appended
          /\ store[i + 1].id \in hist.appended
          /\ store[i - 1].timestamp < store[i + 1].timestamp
          /\ store[i].id \in Ids(req["A"].view.events)

\* the events runCompaction handed to the summarizer in its last call
ToCompact(run) == SliceEvents(run.events, run.window.start, run.window.end)

\* C14: on a store with the mutable hatch, the window handed to the summarizer
\* never holds a summary event made by an earlier compaction.
C14_NeverRecompactsSummary ==
    (cfg.storageRef /\ last.called) =>
        Ids(ToCompact(last)) \cap hist.summaries = {}

\* C15: a compaction that fires returns a list with strictly fewer events
\* than its input.
C15_FiredCompactionShrinks ==
    last.fired => Len(last.output) < Len(last.events)

\* C16: a read of the trimming decorator that gets as far as the budget
\* decision uses max(1000, (base - buffer) * retryFactor): base is the
\* contextLimit of the request when it is a number > 0 and the default 4000
\* otherwise, retryFactor is 1 before the retry and retryTrimPercent / 100
\* (12.5 % by default) on the retry pass; the budget is never below 1000
\* tokens, and the list is trimmed only when its estimate exceeds it.
C16_EffectiveBudget ==
    \A r \in DOMAIN req :
        req[r].view.decided =>
            LET base == IF req[r].contextLimit.some /\ req[r].contextLimit.v > 0
                        THEN req[r].contextLimit.v ELSE 4000
                tp == req[r].retryTrimPercent
                pct == IF tp.some /\ tp.v >= 10 /\ tp.v <= 1000 THEN tp.v ELSE 125
                factor == IF req[r].view.pass = 2 THEN pct ELSE 1000
                raw == (base - 2200) * factor
                eb == req[r].view.effectiveBudget
            IN  /\ eb = (IF raw > 1000 * 1000 THEN raw ELSE 1000 * 1000)
                /\ eb >= 1000 * 1000
                /\ SumTokens(store, 1) * 1000 <= eb => req[r].view.events = store
                /\ Len(req[r].view.events) < Len(store)
                      => SumTokens(store, 1) * 1000 > eb

\* an over-budget decision of a request whose contextLimit is below the
\* buffer and below 1000: the budget is 1000 tokens and the list was trimmed
C16_Witness ==
    \E r \in DOMAIN req :
        /\ req[r].view.decided
        /\ req[r].contextLimit.some
        /\ req[r].contextLimit.v > 0
        /\ req[r].contextLimit.v < 1000
        /\ req[r].view.effectiveBudget = 1000 * 1000
        /\ Len(req[r].view.events) < Len(store)
        /\ Len(req[r].view.events) >= 1

\* C17 as stated: for budgets b1 <= b2, trimEventsFifo keeps no more events
\* under b1 than under b2, and neither does getSession of the trimming
\* decorator, whatever the ranker selects at either budget.
C17_MonotoneInBudget ==
    /\ call.op = "fifo" =>
          \A b \in FifoBudgets :
              b * 1000 >= call.budget =>
                  Len(call.result) <= Len(trimEventsFifo(call.events, b * 1000))
    /\ call.op = "getSession" =>
          \A g \in TrimScopes :
              effectiveBudget(g) >= call.budget =>
                  \A ranker \in StackRankerOutcomes(call.events, g, call.prio) :
                      Len(call.result)
                          <= Len(TrimmingGetSession(call.events, g, call.prio, ranker))

\* C17, amended: for budgets b1 <= b2, trimEventsFifo keeps no more events
\* under b1 than under b2, and neither does getSession of the trimming
\* decorator when the ranker is not there or throws at both budgets (the
\* FIFO path).
C17_MonotoneInBudgetFifo ==
    /\ call.op = "fifo" =>
          \A b \in FifoBudgets :
              b * 1000 >= call.budget =>
                  Len(call.result) <= Len(trimEventsFifo(call.events, b * 1000))
    /\ (call.op = "getSession" /\ (~call.prio \/ call.ranker.throws)) =>
          \A g \in TrimScopes :
              effectiveBudget(g) >= call.budget =>
                  Len(call.result)
                      <= Len(TrimmingGetSession(call.events, g, call.prio, Throws))

\* a read on the FIFO path that trimmed, of a list a larger budget keeps more of
C17_Witness ==
    /\ call.op = "getSession"
    /\ ~call.prio
    /\ Len(call.result) < Len(call.events)
    /\ Len(call.result) >= 2
    /\ \E g \in TrimScopes :
          /\ effectiveBudget(g) > call.budget
          /\ Len(TrimmingGetSession(call.events, g, FALSE, Throws)) > Len(call.result)
          /\ Len(TrimmingGetSession(call.events, g, FALSE, Throws)) < Len(call.events)

\* C18: when the summarizer throws, returns null or returns only empty text,
\* the compacting decorator returns the list it read unchanged, appendEvent
\* returns the event the inner store returned, the call does not throw, and
\* the stored list is what it was before the compaction was tried.
C18_CompactionFailureAdvisory ==
    (last.called /\ last.outcome \in {"throws", "null", "blank"}) =>
        /\ ~last.fired
        /\ ~last.threw
        /\ last.output = last.input
        /\ store = last.input
        /\ last.op = "append" =>
              /\ last.returned = last.input[Len(last.input)].id
              /\ last.returned \in hist.appended
              /\ last.returned \notin hist.summaries

\* an appendEvent whose compaction failed because the summarizer threw, on a
\* store with the hatch that already holds a summary
C18_Witness ==
    /\ last.called
    /\ last.outcome = "throws"
    /\ last.op = "append"
    /\ cfg.storageRef
    /\ Len(store) >= 2
    /\ Ids(store) \cap hist.summaries # {}

\* a getSession whose summarizer returned null, and one whose summarizer
\* returned only empty text
C18_WitnessNull ==
    last.called /\ last.outcome = "null" /\ last.op = "get" /\ Len(store) >= 2

C18_WitnessBlank ==
    last.called /\ last.outcome = "blank" /\ last.op = "get" /\ Len(store) >= 2

\* C19 as stated: when the ranker throws during getSession of the trimming
\* decorator for an over-budget session, the session is returned with its
\* event list unchanged.
C19_RankerFailureUnchanged ==
    (call.op = "getSession" /\ call.ranker.throws) => call.result = call.events

\* C19, amended: when the ranker throws during getSession of the trimming
\* decorator for an over-budget session, the session is returned trimmed by
\* FIFO: its events are the longest suffix within the effective budget, or
\* the last event alone, which is always shorter than the list read; the
\* stored list is unchanged.
C19_RankerFailureFallsBackToFifo ==
    (call.op = "getSession" /\ call.ranker.throws) =>
        LET n == Len(call.events)
            r == call.result
            k == n - Len(r) + 1
        IN  /\ SumTokens(call.events, 1) * 1000 > call.budget
            /\ Len(r) >= 1
            /\ Len(r) < n
            /\ r = Suffix(call.events, k)
            /\ IF Fits(call.events, n, call.budget)
               THEN /\ Fits(call.events, k, call.budget)
                    /\ ~Fits(call.events, k - 1, call.budget)
               ELSE Len(r) = 1
            /\ store = call.events

\* a read whose ranker threw and that returned two or more events, fewer than
\* it read
C19_Witness ==
    /\ call.op = "getSession"
    /\ call.ranker.throws
    /\ Len(call.result) >= 2
    /\ Len(call.result) < Len(call.events)

\* the number of messages a list of events projects to
Projected(events) == Len(eventsToMessagesWithIndices(events).messages)

\* C20 as stated: a read through the stack of a session that has no events or
\* projects to at most 3 messages is passed through by the compacting
\* decorator and by the trimming decorator: each returns the events it read.
C20_PassThrough ==
    /\ (Len(store) = 0 /\ req["A"].view.pass = 1) => req["A"].view.events = <<>>
    /\ (last.op = "get" /\ req["A"].view.pass = 1) =>
          /\ Projected(last.input) <= 3 => last.output = last.input
          /\ Projected(last.output) <= 3 => req["A"].view.events = last.output

\* C20, amended: a session with no events is passed through by both
\* decorators; the trimming decorator passes through every list of fewer than
\* 4 events, whatever the budget; the compacting decorator passes through
\* every list shorter than the interval or whose window is smaller than
\* minEventsToCompact, without calling the summarizer.
C20_PassThroughShort ==
    /\ (Len(store) = 0 /\ req["A"].view.pass = 1) => req["A"].view.events = <<>>
    /\ (last.op = "get" /\ req["A"].view.pass = 1) =>
          /\ Len(last.output) < 4 => req["A"].view.events = last.output
          /\ (\/ Len(last.input) < cfg.compactionInterval
              \/ last.window.end - last.window.start < cfg.minEventsToCompact)
                => (~last.called /\ last.output = last.input)

\* a read of 3 events whose estimate is above the effective budget, returned
\* as they are by both decorators
C20_Witness ==
    /\ last.op = "get"
    /\ req["A"].view.pass = 1
    /\ ~last.called
    /\ Len(last.input) = 3
    /\ SumTokens(last.input, 1) * 1000 > req["A"].view.effectiveBudget
    /\ req["A"].view.events = last.input

\* C21: maybeSummarizeEvents never throws to its caller; it returns null when
\* the transport fails, the status is not 2xx or the completion is empty, and
\* a non-null result only with summary text that is not empty.
C21_SummarizerNullOnFailure ==
    call.op = "summarize" =>
        /\ ~call.result.threw
        /\ call.llm \in {"rejects", "status", "badjson", "empty"} => call.result.null
        /\ ~call.result.null => call.result.text.len > 0

\* the part of C21 the code keeps: a status that is not 2xx gives null
C21_NullOnStatus ==
    (call.op = "summarize" /\ call.llm = "status") =>
        (call.result.null /\ ~call.result.threw)

\* the retry pass of a closed stream succeeded: the runner ended without
\* throwing and no error frame was written after the retry began
RetrySucceeded ==
    /\ sse.pc = "closed"
    /\ sse.ended = "done"
    /\ sse.retryAt >= 0
    /\ \A j \in (sse.retryAt + 1)..Len(frames) : frames[j].type # "error"

\* C22: when the first pass ended with a token-limit error and the retry pass
\* succeeded, the client has received no error frame, and every content frame
\* it has received was written by the retry pass.
C22_RecoveryInvisible ==
    RetrySucceeded =>
        /\ \A j \in 1..Len(frames) : frames[j].type # "error"
        /\ \A j \in 1..sse.retryAt : frames[j].type # "content"

\* the part of C22 the code keeps: the token-limit error that started the
\* retry is not written to the client
C22_TokenErrorNotWritten ==
    RetrySucceeded =>
        \A j \in 1..Len(frames) :
            frames[j].type = "error" => ~isTokenLimitError(frames[j].text)

\* a reasoning segment is open before frame j: a thinking frame with text was
\* written and no close frame after it
ReasoningOpenBefore(j) ==
    \E i \in 1..(j - 1) :
        /\ frames[i].type = "thinking"
        /\ ~frames[i].done
        /\ \A k \in (i + 1)..(j - 1) : ~(frames[k].type = "thinking" /\ frames[k].done)

\* C23: no content frame is written while a reasoning segment is open.
C23_NoContentWhileReasoningOpen ==
    \A j \in 1..Len(frames) :
        frames[j].type = "content" => ~ReasoningOpenBefore(j)

\* the part of C23 the code keeps: the frames written for one event are, in
\* this order, at most one thinking delta, at most one close frame and at most
\* one content delta, appended to the frames written before
C23_OrderWithinEvent ==
    [][sse'.contentEvents # sse.contentEvents =>
          /\ Len(frames') >= Len(frames)
          /\ SubSeq(frames', 1, Len(frames)) = frames
          /\ LET added == SubSeq(frames', Len(frames) + 1, Len(frames'))
                 rank(f) == IF f.type = "content" THEN 3
                            ELSE IF f.done THEN 2 ELSE 1
             IN  /\ Len(added) <= 3
                 /\ \A i \in 1..Len(added) : added[i].type # "error"
                 /\ \A i \in 1..(Len(added) - 1) :
                       rank(added[i]) < rank(added[i + 1])]_vars

\* C24: when no /run_sse request is in flight, modelOverride,
\* requestContextLimit, retryTrimPercent and retryTokenBudgetFactor are all
\* unset, however the last request ended.
C24_AmbientScopeCleared ==
    (\A r \in DOMAIN req : req[r].pc = "idle") => globals = NoGlobals

\* the part of C24 the code keeps: a request that got as far as its try
\* block leaves the scope cleared
C24_ClearedByFinally ==
    (\A r \in DOMAIN req : req[r].pc = "idle" /\ req[r].exit = "finally")
        => globals = NoGlobals

\* the text the delta rule sends for new against old
Suffixed(new, old) ==
    IF Len(old) <= Len(new) /\ \A i \in 1..Len(old) : new[i] = old[i]
    THEN [i \in 1..(Len(new) - Len(old)) |-> new[Len(old) + i]]
    ELSE new

\* the texts of the frames of one kind among the frames written in a step
TextsSent(added, type) ==
    LET RECURSIVE Texts(_)
        Texts(i) ==
            IF i > Len(added) THEN <<>>
            ELSE (IF added[i].type = type /\ ~added[i].done
                  THEN <<added[i].text>> ELSE <<>>) \o Texts(i + 1)
    IN  Texts(1)

\* the frames a non-error event must give under the delta rule, for the old
\* values oldC and oldT of the two channels
FollowsDeltaRule(oldC, oldT) ==
    LET added == SubSeq(frames', Len(frames) + 1, Len(frames'))
        sentC == Suffixed(sse'.finalContent, oldC)
        sentT == Suffixed(sse'.finalThought, oldT)
    IN  /\ TextsSent(added, "content") = (IF sentC = <<>> THEN <<>> ELSE <<sentC>>)
        /\ TextsSent(added, "thinking") = (IF sentT = <<>> THEN <<>> ELSE <<sentT>>)

\* C25 as stated: for each non-error event and each channel, the text sent is
\* the delta rule applied to the new value and the previous value seen on that
\* channel, and nothing is sent when it is empty.
C25_DeltaFromPreviousValue ==
    [][sse'.contentEvents # sse.contentEvents =>
          FollowsDeltaRule(sse.finalContent, sse.finalThought)]_vars

\* C25, amended: the old value of a channel is its baseline: the previous
\* value seen on the channel, or the empty text once a retry has reset it; in
\* a stream without a retry it is always the previous value seen.
C25_DeltaFromBaseline ==
    [][sse'.contentEvents # sse.contentEvents =>
          /\ FollowsDeltaRule(sse.prevText, sse.prevThoughtText)
          /\ sse.prevText \in {sse.finalContent, <<>>}
          /\ sse.prevThoughtText \in {sse.finalThought, <<>>}
          /\ sse.retryAt < 0 =>
                /\ sse.prevText = sse.finalContent
                /\ sse.prevThoughtText = sse.finalThought]_vars

\* content 'a', 'ab', 'b' in one pass: the frames are 'a', 'b', 'b'
C25_Witness ==
    /\ sse.contentEvents = 3
    /\ sse.retryAt < 0
    /\ Len(frames) = 3
    /\ \A j \in 1..3 : frames[j].type = "content"
    /\ frames[1].text = <<"a">>
    /\ frames[2].text = <<"b">>
    /\ frames[3].text = <<"b">>
    /\ sse.finalContent = <<"b">>

\* the step is a transition to RETRY
EntersRetry == ~sse.tokenErrorRetried /\ sse'.tokenErrorRetried

\* C26: every transition to RETRY, from an error event or from a thrown
\* error, empties the content baseline and the thought baseline, clears the
\* reasoning-open flag and sets retryTokenBudgetFactor = retryTrimPercent / 100.
C26_RetryResetsStream ==
    [][EntersRetry =>
          /\ sse'.prevText = <<>>
          /\ sse'.prevThoughtText = <<>>
          /\ ~sse'.thinkingActive
          /\ globals'.retryTokenBudgetFactor = globals.retryTrimPercent]_vars

\* the part of C26 the code keeps: every transition to RETRY empties the
\* content baseline and sets the factor, and one started by an error event
\* resets the thought baseline and the flag too
C26_RetryResetsContent ==
    [][EntersRetry =>
          /\ sse'.prevText = <<>>
          /\ globals'.retryTokenBudgetFactor = globals.retryTrimPercent
          /\ globals'.retryTokenBudgetFactor.some
          /\ sse'.pc = "loop2" =>
                (sse'.prevThoughtText = <<>> /\ ~sse'.thinkingActive)]_vars

\* C27: after a getSession of the compacting decorator in which compaction
\* fired, the store holds the returned list when the hatch is there; without
\* the hatch the store is as it was, and a later getSession on the same
\* stored events calls the summarizer again with the same window.
C27_PersistedWithHatchOnly ==
    [][/\ (last'.op = "get" /\ last'.fired /\ cfg.storageRef) =>
             store' = last'.output
       /\ (last'.op = "get" /\ last'.fired /\ ~cfg.storageRef) =>
             (store' = last'.input /\ store' = store)
       /\ (~cfg.storageRef /\ last.op = "get" /\ last.fired
              /\ hist'.appended = hist.appended) =>
             /\ last'.op = "get"
             /\ last'.called
             /\ last'.input = last.input
             /\ ToCompact(last') = ToCompact(last)]_vars

\* with the hatch, a getSession whose compaction fired and left the summary
\* among other events in the store
C27_Witness ==
    /\ cfg.storageRef
    /\ last.op = "get"
    /\ last.fired
    /\ Len(store) >= 2
    /\ store = last.output
    /\ store # last.input

\* without the hatch, a second getSession that summarized the same stored
\* events again
C27_WitnessNoHatch ==
    /\ ~cfg.storageRef
    /\ last.op = "get"
    /\ last.fired
    /\ store = last.input
    /\ \E a \in hist.summaries : \E b \in hist.summaries :
          /\ a # b
          /\ { p[2] : p \in { q \in hist.covers : q[1] = a } }
               = { p[2] : p \in { q \in hist.covers : q[1] = b } }

\* C28: appendEvent of the compacting decorator appends to the inner store
\* first and returns the event the inner store returned; it calls the
\* summarizer only when the hatch is there and the stored list, with the new
\* event, has at least interval events and a window of at least
\* minEventsToCompact; without the hatch it never calls the summarizer and
\* the stored list grows by exactly the new event.
C28_AppendForwardsFirst ==
    [][hist'.appended # hist.appended =>
          /\ last'.op = "append"
          /\ ~last'.threw
          /\ Len(last'.input) = Len(store) + 1
          /\ SubSeq(last'.input, 1, Len(store)) = store
          /\ last'.returned = last'.input[Len(last'.input)].id
          /\ hist'.appended = hist.appended \cup {last'.returned}
          /\ last'.returned \notin hist.appended
          /\ last'.called =>
                /\ cfg.storageRef
                /\ Len(last'.input) >= cfg.compactionInterval
                /\ last'.window.end - last'.window.start >= cfg.minEventsToCompact
          /\ ~cfg.storageRef =>
                /\ ~last'.called
                /\ store' = last'.input
                /\ hist'.summaries = hist.summaries]_vars

\* an append on a store with the hatch that called the summarizer and got
\* the new event into the window, and the appended event's id was returned
C28_Witness ==
    /\ cfg.storageRef
    /\ last.op = "append"
    /\ last.called
    /\ last.fired
    /\ Len(last.input) >= 2
    /\ last.window.end = Len(last.input)
    /\ last.returned = last.input[Len(last.input)].id
    /\ last.returned \notin Ids(store)

\* appends without the hatch that took the list past the interval
C28_WitnessNoHatch ==
    /\ ~cfg.storageRef
    /\ last.op = "append"
    /\ ~last.called
    /\ Len(store) > cfg.compactionInterval + 1
    /\ store = last.input

\* C29: in the stack with the hatch, a getSession compacts the stored list,
\* persists the compacted list and returns a view trimmed from the compacted
\* list; the store is left holding the compacted list, never the trimmed one.
C29_CompactThenTrim ==
    [][(cfg.storageRef /\ hist'.appended = hist.appended /\ last'.op = "get") =>
          LET compacted == last'.output
              view == req'["A"].view
          IN  /\ last'.input = store
              /\ store' = compacted
              /\ view.pass = 1
              /\ Ids(view.events) \subseteq Ids(compacted)
              /\ Len(view.events) <= Len(compacted)
              /\ (\/ Len(compacted) < 4
                  \/ SumTokens(compacted, 1) * 1000 <= view.effectiveBudget)
                    => view.events = compacted
              /\ Len(view.events) < Len(compacted) => store' # view.events]_vars

\* a read that compacted the stored list and returned fewer events than the
\* compacted list, which the store holds
C29_Witness ==
    /\ cfg.storageRef
    /\ last.op = "get"
    /\ last.fired
    /\ store = last.output
    /\ req["A"].view.pass = 1
    /\ Len(req["A"].view.events) < Len(store)
    /\ Ids(store) \cap hist.summaries # {}

-----------------------------------------------------------------------------
(* The stack as the server wires it *)

MaxWiredEvents == 7

\* the options the server gives createCompactingSessionService
ServerWiring(compactionInterval, compactionOverlap) ==
    Cfg(compactionInterval, compactionOverlap, compactionInterval * 2, TRUE)

InitWired ==
    /\ store = <<>>
    /\ nextId = 1
    /\ phase = "build"
    /\ call = NoCall
    /\ cfg = ServerWiring(3, 1)
    /\ globals = NoGlobals
    /\ priority = FALSE
    /\ req = [r \in {"A"} |-> IdleReq]
    /\ sse = NoStream
    /\ frames = <<>>
    /\ tasks = <<>>
    /\ last = NoRun
    /\ hist = NoHist

NextWired ==
    \/ StackAppend(MaxWiredEvents)
    \/ StackGetSession

SpecWired == InitWired /\ [][NextWired]_vars

-----------------------------------------------------------------------------
(* The trimming decorator without a ranker *)

\* ten events of 500 tokens each, as a session holds them
TenEventsOf500 ==
    [i \in 1..10 |->
        [id |-> i, timestamp |-> i, author |-> "user",
         parts |-> <<TextPart(Str(2000, FALSE))>>]]

\* C31: when getPriority() returns null and the session has at least 4
\* events whose summed estimate exceeds the effective budget, getSession of
\* the trimming decorator returns exactly trimEventsFifo(events,
\* effectiveBudget); ten events of 500 tokens under the default budget of
\* 4000 - 2200 tokens give the last 3 events.
C31_FifoWhenRankerUnavailable ==
    /\ (/\ call.op = "getSession"
        /\ ~call.prio
        /\ Len(call.events) >= 4
        /\ SumTokens(call.events, 1) * 1000 > call.budget) =>
           call.result = trimEventsFifo(call.events, call.budget)
    /\ TrimmingGetSession(TenEventsOf500, NoGlobals, FALSE, NoThrow(<<>>))
           = SubSeq(TenEventsOf500, 8, 10)

\* a read without a ranker under the default budget of 1800 tokens that kept
\* the last 3 of 5 events
C31_Witness ==
    /\ call.op = "getSession"
    /\ ~call.prio
    /\ call.budget = 1800 * 1000
    /\ Len(call.events) = 5
    /\ SumTokens(call.events, 1) * 1000 > call.budget
    /\ call.result = SubSeq(call.events, 3, 5)


-----------------------------------------------------------------------------
(* The projection of events onto messages *)

\* the same list with three spaces as the text of every event of empty text
WithSpaces(events) ==
    [i \in 1..Len(events) |->
        IF extractTextFromParts(events[i].parts) = EmptyStr
        THEN [events[i] EXCEPT !.parts = <<TextPart(Str(3, TRUE))>>]
        ELSE events[i]]

\* the text of the event is whitespace only (or empty)
AllWhitespace(ev) == extractTextFromParts(ev.parts).ws

IsUserAuthor(ev) == ev.author \in {"user", "USER", ""}

Projects(events) ==
    LET p == eventsToMessagesWithIndices(events)
        n == Len(p.messages)
    IN  /\ Len(p.eventIndices) = n
        /\ \A k \in 1..n :
              /\ p.eventIndices[k] \in 1..Len(events)
              /\ ~AllWhitespace(events[p.eventIndices[k]])
              /\ p.messages[k].role # ChatMessageRole.System
              /\ p.messages[k].role =
                     IF IsUserAuthor(events[p.eventIndices[k]])
                     THEN ChatMessageRole.User ELSE ChatMessageRole.Assistant
        /\ \A k \in 1..(n - 1) : p.eventIndices[k] < p.eventIndices[k + 1]
        /\ \A i \in 1..Len(events) :
              IF AllWhitespace(events[i])
              THEN \A k \in 1..n : p.eventIndices[k] # i
              ELSE Cardinality({ k \in 1..n : p.eventIndices[k] = i }) = 1

\* C32: eventsToMessagesWithIndices projects no event whose concatenated part
\* text is all whitespace and exactly one message for every other event, with
\* role User when the author, compared without case, is 'user' or empty and
\* Assistant otherwise, never System; eventIndices is strictly increasing, as
\* long as messages, and eventIndices[k] is the position of the event that
\* produced messages[k].
C32_Projection ==
    call.op = "rank" =>
        /\ Projects(call.events)
        /\ Projects(WithSpaces(call.events))

\* a call of trimEventsByRank on a list with an event of empty text, an event
\* of author USER and an event of another author
C32_Witness ==
    /\ call.op = "rank"
    /\ Len(call.events) = 4
    /\ Len(eventsToMessagesWithIndices(call.events).messages) = 3
    /\ eventsToMessagesWithIndices(WithSpaces(call.events)).eventIndices = <<1, 3, 4>>
    /\ call.events[1].author = "USER"
    /\ call.events[2].author = ""
    /\ call.events[3].author = "model"


-----------------------------------------------------------------------------
(* Binary parts in the token estimate *)

\* the part carries inlineData and neither a text nor a value
BinaryOnly(p) == ~Truthy(p.text) /\ p.value = Absent /\ p.inlineData

\* the same event with an empty text in place of every binary-only part
StripBinary(ev) ==
    [ev EXCEPT !.parts = [i \in 1..Len(ev.parts) |->
        IF BinaryOnly(ev.parts[i]) THEN TextPart(EmptyStr) ELSE ev.parts[i]]]

StripBinaryAll(events) == [i \in 1..Len(events) |-> StripBinary(events[i])]

BinaryOnlyParts(ev) == Cardinality({ i \in 1..Len(ev.parts) : BinaryOnly(ev.parts[i]) })

\* the estimate of an event when each binary-only part counts `chars` characters
EstimateWith(ev, chars) ==
    CeilDiv4(extractTextFromParts(StripBinary(ev).parts).len
                + chars * BinaryOnlyParts(ev))

RECURSIVE SumWith(_, _, _)
SumWith(events, i, chars) ==
    IF i > Len(events) THEN 0
    ELSE EstimateWith(events[i], chars) + SumWith(events, i + 1, chars)

\* how many of the last events the FIFO trim keeps under that estimate: the
\* longest suffix that fits the budget, and never fewer than one event
KeptWith(events, budget, chars) ==
    LET fits == { k \in 1..Len(events) :
                    SumWith(SubSeq(events, Len(events) - k + 1, Len(events)), 1, chars)
                        * 1000 <= budget }
    IN  IF Len(events) = 0 THEN 0
        ELSE IF fits = {} THEN 1
        ELSE CHOOSE k \in fits : \A j \in fits : j <= k

\* the budget decisions of a call when a binary-only part counts `chars`
\* characters
DecidesWith(chars) ==
    /\ call.op = "fifo" =>
          call.result = SubSeq(call.events,
                               Len(call.events) - KeptWith(call.events, call.budget, chars) + 1,
                               Len(call.events))
    /\ call.op = "getSession" =>
          /\ Len(call.result) < Len(call.events) =>
                 SumWith(call.events, 1, chars) * 1000 > call.budget
          /\ (~call.prio /\ Len(call.events) >= 4
                 /\ SumWith(call.events, 1, chars) * 1000 > call.budget) =>
                 Len(call.result) = KeptWith(call.events, call.budget, chars)

\* C33 as stated: in the over-budget test of the trimming decorator and in
\* the per-event cost of the FIFO trim, a part carrying only inlineData
\* contributes zero tokens.
C33_BinaryCountsZero == DecidesWith(0)

\* C33, amended: in the over-budget test of the trimming decorator and in the
\* per-event cost of the FIFO trim, a part carrying only inlineData
\* contributes the 8 characters of the literal "[binary]" to the text of its
\* event, 2 tokens for an event that holds nothing else.
C33_BinaryCountsMarker ==
    /\ DecidesWith(8)
    /\ EventTokens(BinaryEvent) = 2

\* a read under the budget of 1800 tokens of three events of 600 tokens and a
\* binary-only event: the estimate of 1802 tokens is over the budget and the
\* list was trimmed
C33_Witness ==
    /\ call.op = "getSession"
    /\ ~call.prio
    /\ call.budget = 1800 * 1000
    /\ Len(call.events) = 4
    /\ SumTokens(StripBinaryAll(call.events), 1) = 1800
    /\ SumTokens(call.events, 1) = 1802
    /\ Len(call.result) < 4


-----------------------------------------------------------------------------
(* The retry factor *)

\* retryTrimPercent of a request, in tenths of a percent: its own value when
\* that is a number in [1, 100], and 12.5 otherwise
PercentOf(retryTrimPercent) ==
    IF retryTrimPercent.some /\ retryTrimPercent.v >= 10 /\ retryTrimPercent.v <= 1000
    THEN retryTrimPercent.v ELSE 125

\* values of retryTrimPercent a body may carry: none, 0, negative, 0.5, 1,
\* 12.5, 100, 100.1, 200
Percents ==
    {None, Some(0), Some(-10), Some(5), Some(10), Some(125), Some(1000),
     Some(1001), Some(2000)}

\* C34: the retry factor getSession of the trimming decorator applies is
\* always above 0 and at most 1; it is 1 on every session read before the
\* token-limit error of the request and retryTrimPercent / 100 on the retry
\* pass, where retryTrimPercent is the value of the request when that is a
\* number in [1, 100] and 12.5 otherwise.
C34_RetryFactor ==
    /\ \A r \in DOMAIN req :
          req[r].pc = "read" =>
              /\ RetryFactor(globals) > 0
              /\ RetryFactor(globals) <= 1000
              /\ RetryFactor(globals) =
                     IF req[r].tokenErrorRetried
                     THEN PercentOf(req[r].retryTrimPercent) ELSE 1000
    /\ \A tp \in Percents :
          LET g == SetGlobals(NoGlobals, None, None, tp)
          IN  /\ RetryFactor(g) = 1000
              /\ RetryFactor(runSummariseOnTokenError(g)) = PercentOf(tp)
              /\ PercentOf(tp) > 0
              /\ PercentOf(tp) <= 1000

\* a session read on the retry pass of a request whose retryTrimPercent of
\* 200 is out of range: the factor is 0.125
C34_Witness ==
    \E r \in DOMAIN req :
        /\ req[r].pc = "read"
        /\ req[r].tokenErrorRetried
        /\ req[r].retryTrimPercent = Some(2000)
        /\ RetryFactor(globals) = 125
        /\ req[r].first.len > 0


-----------------------------------------------------------------------------
(* /run_sse: the pre-hook that selects the message handed to the runner *)

\* texts of this section are sequences of pieces, so that they can be joined
NL == <<"\n">>

\* an optional string: present (possibly empty) or undefined
Opt(s) == [has |-> TRUE, s |-> s]

Missing == [has |-> FALSE, s |-> <<>>]

\* a ?? b
Coalesce(a, b) == IF a.has THEN a ELSE b

MsgPart(text, value, inlineData) ==
    [text |-> text, value |-> value, inlineData |-> inlineData]

UserMessage(parts) == [role |-> "user", parts |-> parts]

\* the newMessage of a request: a text, a text with an attachment, a value
\* part, an attachment only, no parts
NewMessages ==
    { UserMessage(<<MsgPart(Opt(<<"hi">>), Missing, FALSE)>>),
      UserMessage(<<MsgPart(Opt(<<"hi">>), Missing, FALSE),
                    MsgPart(Missing, Missing, TRUE)>>),
      UserMessage(<<MsgPart(Missing, Opt(<<"7">>), FALSE)>>),
      UserMessage(<<MsgPart(Missing, Missing, TRUE)>>),
      UserMessage(<<>>) }

\* extractUserMessageText of the server: p?.text ?? '' of every part, joined
RECURSIVE extractUserMessageText(_)
extractUserMessageText(parts) ==
    IF parts = <<>> THEN <<>>
    ELSE Coalesce(Head(parts).text, Opt(<<>>)).s \o extractUserMessageText(Tail(parts))

\* extractTextFromParts of the middleware
RECURSIVE middlewareTextFromParts(_)
middlewareTextFromParts(parts) ==
    IF parts = <<>> THEN <<>>
    ELSE LET p == Head(parts)
             text == IF p.text.has /\ p.text.s # <<>> THEN p.text.s
                     ELSE IF p.value.has THEN p.value.s
                     ELSE IF p.inlineData THEN <<"[binary]">>
                     ELSE <<>>
         IN  text \o middlewareTextFromParts(Tail(parts))

\* process.env.ADK_ENABLE_CONTEXT_STRATEGIES
EnvValues == {"unset", "0", "1", "true"}

\* what stuck.detectStuck returns; the confidence is in thousandths
StuckResults ==
    { [isStuck |-> s, confidence |-> c] : s \in BOOLEAN, c \in {0, 600, 601, 900} }

\* content[0] of the message stuck.generateRecoveryMessage returns
Recoveries ==
    { [value |-> Opt(<<"recover">>), text |-> Missing],
      [value |-> Missing, text |-> Opt(<<"recover">>)],
      [value |-> Opt(<<>>), text |-> Opt(<<"recover">>)],
      [value |-> Missing, text |-> Missing] }

\* recovery.content?.[0]?.value ?? recovery.content?.[0]?.text ?? ''
recoveryText(recovery) ==
    Coalesce(recovery.value, Coalesce(recovery.text, Opt(<<>>))).s

\* what associative.sieve resolves with
SieveResults ==
    { [context |-> c, nodesIncluded |-> n] : c \in {<<>>, <<"ctx">>}, n \in {0, 2} }

NoHookResult == [enrichedUserMessage |-> Missing, recoveryMessage |-> Missing]

\* a bug: the confidence test is not strict
StuckAtThreshold(stuckResult) ==
    stuckResult.isStuck /\ stuckResult.confidence >= 600

\* stuckResult.isStuck && stuckResult.confidence > 0.6
IsStuck(stuckResult) == stuckResult.isStuck /\ stuckResult.confidence > 600

\* the enriched message of runBeforeRequest
EnrichedMessage(context, userText) ==
    UserMessage(<<MsgPart(Opt(<<"[Relevant context from memory]">> \o NL
                               \o context \o NL \o NL \o userText),
                          Missing, FALSE)>>)

\* the message the handler builds from a recovery text
RecoveryMessage(recoveryMessage, newMessage) ==
    UserMessage(<<MsgPart(Opt(recoveryMessage \o NL \o NL \o <<"[User message]">>
                               \o NL \o extractUserMessageText(newMessage.parts)),
                          Missing, FALSE)>>)

\* the handler's choice of messageToRun from what runBeforeRequest returned;
\* a recoveryMessage or enrichedUserMessage that is null or '' is falsy
messageToRun(result, newMessage) ==
    IF result.recoveryMessage.has /\ result.recoveryMessage.s # <<>>
    THEN RecoveryMessage(result.recoveryMessage.s, newMessage)
    ELSE IF result.enrichedUserMessage.has THEN result.enrichedUserMessage.s
    ELSE newMessage

NoHook ==
    [op |-> "run_sse", pc |-> "start", env |-> "unset", newMessage |-> UserMessage(<<>>),
     services |-> FALSE, stuckCalled |-> FALSE,
     stuckResult |-> [isStuck |-> FALSE, confidence |-> 0],
     recoveryCalled |-> FALSE, recovery |-> [value |-> Missing, text |-> Missing],
     sieveCalled |-> FALSE, sieveResult |-> [context |-> <<>>, nodesIncluded |-> 0],
     threw |-> FALSE, result |-> NoHookResult, messageToRun |-> UserMessage(<<>>)]

\* the handler reaches the pre-hook: it is run when the variable is '1'
PreHookBegin ==
    /\ phase = "build"
    /\ \E env \in EnvValues, newMessage \in NewMessages :
          call' = [NoHook EXCEPT
                     !.env = env, !.newMessage = newMessage,
                     !.pc = IF env = "1" THEN "init" ELSE "select"]
    /\ phase' = "called"
    /\ UNCHANGED <<store, nextId, reqVars, sseVars, compVars>>

\* runBeforeRequest after await ensureInitialized(): with both services it
\* goes on to the stuck detection, without them it returns nulls
PreHookInitialized ==
    /\ phase = "called"
    /\ call.op = "run_sse"
    /\ call.pc = "init"
    /\ \E services \in BOOLEAN :
          call' = [call EXCEPT !.services = services,
                               !.pc = IF services THEN "detect" ELSE "select"]
    /\ UNCHANGED <<store, nextId, phase, reqVars, sseVars, compVars>>

\* stuck.detectStuck returns or throws; above the threshold the recovery
\* message is generated and returned, and the sieve is not reached
PreHookDetectStuck ==
    /\ phase = "called"
    /\ call.op = "run_sse"
    /\ call.pc = "detect"
    /\ \/ call' = [call EXCEPT !.stuckCalled = TRUE, !.threw = TRUE, !.pc = "select"]
       \/ \E stuckResult \in StuckResults :
             IF IsStuck(stuckResult)
             THEN \/ call' = [call EXCEPT !.stuckCalled = TRUE,
                                          !.stuckResult = stuckResult,
                                          !.recoveryCalled = TRUE,
                                          !.threw = TRUE, !.pc = "select"]
                  \/ \E recovery \in Recoveries :
                        call' = [call EXCEPT
                                   !.stuckCalled = TRUE,
                                   !.stuckResult = stuckResult,
                                   !.recoveryCalled = TRUE,
                                   !.recovery = recovery,
                                   !.result = [enrichedUserMessage |-> Missing,
                                               recoveryMessage |->
                                                   Opt(recoveryText(recovery))],
                                   !.pc = "select"]
             ELSE call' = [call EXCEPT !.stuckCalled = TRUE,
                                       !.stuckResult = stuckResult,
                                       !.pc = "sieve"]
    /\ UNCHANGED <<store, nextId, phase, reqVars, sseVars, compVars>>

\* await associative.sieve(query, 1500) resolves or rejects
PreHookSieve ==
    /\ phase = "called"
    /\ call.op = "run_sse"
    /\ call.pc = "sieve"
    /\ \/ call' = [call EXCEPT !.sieveCalled = TRUE, !.threw = TRUE, !.pc = "select"]
       \/ \E sieveResult \in SieveResults :
             call' = [call EXCEPT
                        !.sieveCalled = TRUE,
                        !.sieveResult = sieveResult,
                        !.result =
                            IF sieveResult.context # <<>> /\ sieveResult.nodesIncluded > 0
                            THEN [enrichedUserMessage |->
                                      Opt(EnrichedMessage(sieveResult.context,
                                              middlewareTextFromParts(call.newMessage.parts))),
                                  recoveryMessage |-> Missing]
                            ELSE NoHookResult,
                        !.pc = "select"]
    /\ UNCHANGED <<store, nextId, phase, reqVars, sseVars, compVars>>

\* the handler after the pre-hook: messageToRun stays newMessage when the
\* pre-hook was not run or threw, and is chosen from its result otherwise
PreHookSelect ==
    /\ phase = "called"
    /\ call.op = "run_sse"
    /\ call.pc = "select"
    /\ call' = [call EXCEPT
                  !.messageToRun =
                      IF call.env # "1" \/ call.threw THEN call.newMessage
                      ELSE messageToRun(call.result, call.newMessage),
                  !.pc = "run"]
    /\ UNCHANGED <<store, nextId, phase, reqVars, sseVars, compVars>>

\* runner.runAsync({ newMessage: messageToRun }) has been called and the
\* request ends
PreHookRun ==
    /\ phase = "called"
    /\ call.op = "run_sse"
    /\ call.pc = "run"
    /\ call' = NoCall
    /\ phase' = "build"
    /\ UNCHANGED <<store, nextId, reqVars, sseVars, compVars>>

InitPreHook == InitFn

NextPreHook ==
    \/ PreHookBegin
    \/ PreHookInitialized
    \/ PreHookDetectStuck
    \/ PreHookSieve
    \/ PreHookSelect
    \/ PreHookRun

SpecPreHook == InitPreHook /\ [][NextPreHook]_vars

\* the pre-hook ran to the end of the stuck detection without throwing
HookDetected ==
    call.env = "1" /\ call.services /\ call.stuckCalled /\ ~call.threw

\* C35 as stated: if the stuck detection reports isStuck with a confidence
\* strictly above 0.6 the sieve is not invoked and the runner receives the
\* recovery text followed by the original user text; otherwise, if the sieve
\* returns a context with nodesIncluded > 0, the runner receives the user
\* text prefixed with the memory context; in every other case, the pre-hook
\* throwing or the context strategies disabled or uninitialised included, the
\* runner receives the original message unchanged.
C35_PreHookSelection ==
    (call.op = "run_sse" /\ call.pc = "run") =>
        IF HookDetected /\ call.stuckResult.isStuck /\ call.stuckResult.confidence > 600
        THEN /\ ~call.sieveCalled
             /\ call.messageToRun =
                    RecoveryMessage(recoveryText(call.recovery), call.newMessage)
        ELSE IF HookDetected /\ call.sieveCalled
                  /\ call.sieveResult.context # <<>> /\ call.sieveResult.nodesIncluded > 0
        THEN call.messageToRun =
                 EnrichedMessage(call.sieveResult.context,
                                 middlewareTextFromParts(call.newMessage.parts))
        ELSE call.messageToRun = call.newMessage

\* C35, amended: as stated, except that above the threshold the runner
\* receives the recovery text followed by the original user text only when
\* the recovery text is not empty, and the original message unchanged when
\* it is empty; the sieve is not invoked in either case.
C35_PreHookSelectionNonEmpty ==
    (call.op = "run_sse" /\ call.pc = "run") =>
        IF HookDetected /\ call.stuckResult.isStuck /\ call.stuckResult.confidence > 600
        THEN /\ ~call.sieveCalled
             /\ call.messageToRun =
                    IF recoveryText(call.recovery) # <<>>
                    THEN RecoveryMessage(recoveryText(call.recovery), call.newMessage)
                    ELSE call.newMessage
        ELSE IF HookDetected /\ call.sieveCalled
                  /\ call.sieveResult.context # <<>> /\ call.sieveResult.nodesIncluded > 0
        THEN call.messageToRun =
                 EnrichedMessage(call.sieveResult.context,
                                 middlewareTextFromParts(call.newMessage.parts))
        ELSE call.messageToRun = call.newMessage

\* a request with a text and an attachment, stuck with confidence 0.9: the
\* runner is handed the recovery text, the marker and the text 'hi'
C35_Witness ==
    /\ call.op = "run_sse"
    /\ call.pc = "run"
    /\ call.stuckResult = [isStuck |-> TRUE, confidence |-> 900]
    /\ ~call.sieveCalled
    /\ Len(call.newMessage.parts) = 2
    /\ call.messageToRun.parts[1].text.s
          = <<"recover", "\n", "\n", "[User message]", "\n", "hi">>

\* a request stuck at exactly 0.6: the sieve was called and the runner is
\* handed the text prefixed with the memory context
C35_WitnessSieve ==
    /\ call.op = "run_sse"
    /\ call.pc = "run"
    /\ call.stuckResult = [isStuck |-> TRUE, confidence |-> 600]
    /\ call.sieveCalled
    /\ Len(call.newMessage.parts) = 2
    /\ Len(call.messageToRun.parts) = 1
    /\ call.messageToRun.parts[1].text.s
          = <<"[Relevant context from memory]", "\n", "ctx", "\n", "\n", "hi", "[binary]">>

\* a request stuck with confidence 0.9 whose recovery message has no text:
\* the runner is handed the message of the request
C35_WitnessEmpty ==
    /\ call.op = "run_sse"
    /\ call.pc = "run"
    /\ call.stuckResult = [isStuck |-> TRUE, confidence |-> 900]
    /\ call.recoveryCalled
    /\ ~call.threw
    /\ recoveryText(call.recovery) = <<>>
    /\ call.messageToRun = call.newMessage
    /\ call.newMessage.parts # <<>>


-----------------------------------------------------------------------------
(* What a trimming read returns when the session is over the budget *)

\* the session has at least 4 events and its estimate exceeds the budget
OverBudget(events, budget) ==
    Len(events) >= 4 /\ SumTokens(events, 1) * 1000 > budget

\* selections with a message twice and with an object that is not one of the
\* messages, next to those of the calls
OddSelections(events) ==
    LET m == Len(eventsToMessagesWithIndices(events).messages)
    IN  {NoThrow(AscOf(1..m) \o <<1>>), NoThrow(<<0>>), NoThrow(<<0>> \o AscOf(1..m))}

\* C36: whenever getSession of the trimming decorator finds a session of at
\* least 4 events whose estimate exceeds the effective budget, the list it
\* returns is strictly shorter than the stored list, whether the ranker is
\* unavailable, selects everything, selects a subset or throws; the branch
\* that returns the session unchanged after the FIFO trim is never taken.
C36_OverBudgetShrinks ==
    (call.op = "getSession" /\ OverBudget(call.events, call.budget)) =>
        /\ Len(call.result) < Len(call.events)
        /\ Len(trimEventsFifo(call.events, call.budget)) < Len(call.events)
        /\ Len(CatchFallback(call.events, call.budget)) < Len(call.events)
        /\ \A g \in TrimScopes :
              effectiveBudget(g) = call.budget =>
                  \A ranker \in StackRankerOutcomes(call.events, g, call.prio)
                                    \cup OddSelections(call.events) :
                      Len(TrimmingGetSession(call.events, g, call.prio, ranker))
                          < Len(call.events)

\* a read over the budget in which the ranker selected every message: the
\* FIFO trim made the list shorter
C36_Witness ==
    /\ call.op = "getSession"
    /\ OverBudget(call.events, call.budget)
    /\ call.prio
    /\ ~call.ranker.throws
    /\ Len(call.ranker.selected) = Len(call.events)
    /\ call.result = trimEventsFifo(call.events, call.budget)
    /\ Len(call.result) < Len(call.events)
    /\ Len(call.result) >= 1

\* C37: getSession of the trimming decorator never returns an empty event
\* list for a session that has events, for every budget and every selection
\* the ranker may return, the empty selection and objects that are not the
\* messages it was given included.
C37_NeverEmpty ==
    (call.op = "getSession" /\ Len(call.events) > 0) => Len(call.result) >= 1

\* a read over the budget in which the ranker selected nothing: no event is
\* returned
C37_EmptyReturned ==
    /\ call.op = "getSession"
    /\ OverBudget(call.events, call.budget)
    /\ call.prio
    /\ call.ranker = NoThrow(<<>>)
    /\ call.result = <<>>


-----------------------------------------------------------------------------
(* Appends through a compacting decorator whose summarizer always succeeds *)

MaxAppends == 8

\* options with interval + overlap >= 2 and minEventsToCompact <= interval +
\* overlap, and three without: a window of one event, a minimum above every
\* window, no hatch
BoundedCfgs ==
    { c \in { Cfg(i, o, m, TRUE) : i \in 1..3, o \in 0..2, m \in {1, 2, 4, 5} } :
        /\ c.compactionInterval + c.overlapSize >= 2
        /\ c.minEventsToCompact <= c.compactionInterval + c.overlapSize }

UnboundedCfgs == {Cfg(1, 0, 1, TRUE), Cfg(3, 1, 6, TRUE), Cfg(2, 0, 2, FALSE)}

\* appendEvent of the compacting decorator with a summarizer that returns a
\* summary whenever it is called
AppendSummarized ==
    /\ Cardinality(hist.appended) < MaxAppends
    /\ \E shape \in {BigEvent, BinaryEvent} :
          LET stored == Append(store, NewEvent(nextId, shape))
              outcome == IF cfg.storageRef /\ CallsSummarizer(stored, cfg)
                         THEN "summary" ELSE "none"
              run == runCompaction("append", stored, cfg, outcome, nextId + 1)
          IN  /\ store' = IF cfg.storageRef /\ run.fired
                          THEN WriteBack(stored, run.output, stored) ELSE stored
              /\ last' = IF cfg.storageRef THEN run ELSE Forwarded(stored)
              /\ hist' = Summarized([hist EXCEPT !.appended = @ \cup {nextId}],
                                    run, nextId + 1)
              /\ nextId' = IF run.fired THEN nextId + 2 ELSE nextId + 1
    /\ UNCHANGED <<fnVars, reqVars, sseVars, cfg, tasks>>

InitBounded ==
    /\ store = <<>>
    /\ nextId = 1
    /\ phase = "build"
    /\ call = NoCall
    /\ cfg \in BoundedCfgs \cup UnboundedCfgs
    /\ globals = NoGlobals
    /\ priority = FALSE
    /\ req = [r \in {"A"} |-> IdleReq]
    /\ sse = NoStream
    /\ frames = <<>>
    /\ tasks = <<>>
    /\ last = NoRun
    /\ hist = NoHist

NextBounded == AppendSummarized

SpecBounded == InitBounded /\ [][NextBounded]_vars

\* the smallest multiple of the interval that is at least
\* max(interval, minEventsToCompact)
HistoryBound(c) ==
    LET least == Max(c.compactionInterval, c.minEventsToCompact)
    IN  ((least + c.compactionInterval - 1) \div c.compactionInterval)
            * c.compactionInterval

\* C38: with the mutable hatch, a summarizer that always succeeds, interval +
\* overlap >= 2 and minEventsToCompact <= interval + overlap, after any
\* sequence of sequential appendEvent calls the stored list holds, once the
\* append has completed, no more events than the smallest multiple of the
\* interval that is at least max(interval, minEventsToCompact).
C38_BoundedHistory ==
    (/\ cfg.storageRef
     /\ cfg.compactionInterval + cfg.overlapSize >= 2
     /\ cfg.minEventsToCompact <= cfg.compactionInterval + cfg.overlapSize) =>
        Len(store) <= HistoryBound(cfg)

\* with interval 2, overlap 2 and a minimum of 4, the append that made the
\* fourth stored event compacted the list for the second time
C38_Witness ==
    /\ cfg = Cfg(2, 2, 4, TRUE)
    /\ HistoryBound(cfg) = 4
    /\ last.op = "append"
    /\ last.fired
    /\ Len(last.input) = 4
    /\ Len(store) = 1
    /\ Cardinality(hist.summaries) = 2
    /\ Cardinality(hist.appended) = 7


-----------------------------------------------------------------------------
(* context-shared: the one initialisation of the context strategies *)

MaxImports == 2

\* the callers of ensureInitialized: runBeforeRequest, getSession of the
\* trimming decorator, the executor of the context tools
Callers == {"middleware", "trimming", "tools"}

NoSight == [associative |-> FALSE, stuck |-> FALSE, priority |-> FALSE,
            stage |-> "none"]

\* the module state after import: associative, stuck (and priority, held in
\* the variable of that name) are null and there is no initPromise.  `stage`
\* is where the body of the promise stands, `imports` how often the core was
\* imported and `constructions` how often the services were constructed.
NoContext ==
    [op |-> "context", associative |-> FALSE, stuck |-> FALSE,
     initPromise |-> "none", stage |-> "none", imports |-> 0, constructions |-> 0,
     callers |-> [c \in Callers |->
                    [pc |-> "idle", calledAt |-> "none", saw |-> NoSight]]]

\* a bug: a settled initPromise does not keep a later call from a new attempt
EnsurePathRetries(ctx, prio) ==
    IF ctx.associative /\ ctx.stuck /\ prio THEN "return"
    ELSE IF ctx.initPromise = "pending" THEN "wait"
    ELSE "init"

\* the two tests that open ensureInitialized
EnsurePath(ctx, prio) ==
    IF ctx.associative /\ ctx.stuck /\ prio THEN "return"
    ELSE IF ctx.initPromise # "none" THEN "wait"
    ELSE "init"

\* the catch block: the three services are null again and the promise
\* resolves
InitFailed(ctx) ==
    [ctx EXCEPT !.associative = FALSE, !.stuck = FALSE,
                !.stage = "failed", !.initPromise = "settled"]

\* a call of ensureInitialized up to its return: it returns at once, returns
\* the initPromise there is, or makes the promise and starts the import of
\* the core
EnsureInitialized(c) ==
    /\ call.callers[c].pc = "idle"
    /\ LET path == EnsurePath(call, priority) IN
       /\ path = "init" => call.imports < MaxImports
       /\ call' = IF path = "return"
                  THEN [call EXCEPT !.callers[c].pc = "returned",
                                    !.callers[c].calledAt = call.stage]
                  ELSE IF path = "wait"
                  THEN [call EXCEPT !.callers[c].pc = "waiting",
                                    !.callers[c].calledAt = call.stage]
                  ELSE [call EXCEPT !.callers[c].pc = "waiting",
                                    !.callers[c].calledAt = call.stage,
                                    !.initPromise = "pending",
                                    !.stage = "core",
                                    !.imports = @ + 1]
    /\ UNCHANGED <<store, nextId, phase, reqVars, sseVars, compVars>>

\* await import('context-strategies-vercel-mcp/core') settles
ImportCore ==
    /\ call.stage = "core"
    /\ \/ call' = [call EXCEPT !.stage = "storage"]
       \/ call' = InitFailed(call)
    /\ priority' = FALSE
    /\ UNCHANGED <<store, nextId, phase, globals, req, sseVars, compVars>>

\* await import('.../storage') settles; the adapter and the three services
\* are constructed and associative.initialize() is called, unless the import
\* or a constructor throws
ImportStorage ==
    /\ call.stage = "storage"
    /\ \/ /\ call' = [call EXCEPT !.associative = TRUE, !.stuck = TRUE,
                                   !.constructions = @ + 1,
                                   !.stage = "initialize"]
          /\ priority' = TRUE
       \/ /\ call' = InitFailed(call)
          /\ priority' = FALSE
       \/ /\ call' = InitFailed([call EXCEPT !.constructions = @ + 1])
          /\ priority' = FALSE
    /\ UNCHANGED <<store, nextId, phase, globals, req, sseVars, compVars>>

\* await associative.initialize() settles
Initialize ==
    /\ call.stage = "initialize"
    /\ \/ /\ call' = [call EXCEPT !.stage = "done", !.initPromise = "settled"]
          /\ priority' = priority
       \/ /\ call' = InitFailed(call)
          /\ priority' = FALSE
    /\ UNCHANGED <<store, nextId, phase, globals, req, sseVars, compVars>>

\* the caller resumes after `await ensureInitialized()` and reads the
\* services with getAssociative, getStuck and getPriority
Resume(c) ==
    /\ \/ call.callers[c].pc = "returned"
       \/ call.callers[c].pc = "waiting" /\ call.initPromise = "settled"
    /\ call' = [call EXCEPT
                  !.callers[c] =
                      [pc |-> "resumed",
                       calledAt |-> call.callers[c].calledAt,
                       saw |-> [associative |-> call.associative,
                                stuck |-> call.stuck,
                                priority |-> priority,
                                stage |-> call.stage]]]
    /\ UNCHANGED <<store, nextId, phase, reqVars, sseVars, compVars>>

\* the caller is done with the services; it may call again
Finish(c) ==
    /\ call.callers[c].pc = "resumed"
    /\ call' = [call EXCEPT !.callers[c] =
                               [pc |-> "idle", calledAt |-> "none", saw |-> NoSight]]
    /\ UNCHANGED <<store, nextId, phase, reqVars, sseVars, compVars>>

InitContext ==
    /\ store = <<>>
    /\ nextId = 1
    /\ phase = "build"
    /\ call = NoContext
    /\ cfg = DefaultCfg
    /\ globals = NoGlobals
    /\ priority = FALSE
    /\ req = [r \in {"A"} |-> IdleReq]
    /\ sse = NoStream
    /\ frames = <<>>
    /\ tasks = <<>>
    /\ last = NoRun
    /\ hist = NoHist

NextContext ==
    \/ \E c \in Callers : EnsureInitialized(c)
    \/ ImportCore
    \/ ImportStorage
    \/ Initialize
    \/ \E c \in Callers : Resume(c)
    \/ \E c \in Callers : Finish(c)

SpecContext == InitContext /\ [][NextContext]_vars

\* C39: for any interleaving of concurrent callers, when a caller's
\* ensureInitialized resolves, either the associative, stuck and priority
\* services are all null or associative.initialize() has already completed
\* successfully; no caller obtains a non-null associative service whose
\* initialisation is still in progress or later fails.
C39_InitCompleteBeforeUse ==
    \A c \in Callers :
        call.callers[c].pc = "resumed" =>
            LET saw == call.callers[c].saw IN
            \/ ~saw.associative /\ ~saw.stuck /\ ~saw.priority
            \/ saw.stage = "done"

\* the trimming decorator resumed with the three services there while the
\* initialisation the middleware started has since failed
C39_UsedBeforeInitialized ==
    /\ call.callers["trimming"].pc = "resumed"
    /\ call.callers["trimming"].saw.associative
    /\ call.callers["trimming"].saw.stage = "initialize"
    /\ call.callers["middleware"].pc = "waiting"
    /\ call.stage = "failed"

\* C40: across any number of sequential or concurrent ensureInitialized
\* calls the core is imported and the services are constructed at most once;
\* after a failed initialisation the three services stay null for the rest
\* of the process and no later call attempts the initialisation again.
C40_SingleInit ==
    [][/\ call'.imports <= 1
       /\ call'.constructions <= 1
       /\ call.stage = "failed" =>
             /\ call'.stage = "failed"
             /\ call'.imports = call.imports
             /\ call'.constructions = call.constructions
             /\ ~call'.associative /\ ~call'.stuck /\ ~priority']_vars

\* the initialisation failed in associative.initialize(); the middleware
\* called after that, waited on the settled promise and resumed without
\* services, the core imported and the services constructed once
C40_Witness ==
    /\ call.stage = "failed"
    /\ call.imports = 1
    /\ call.constructions = 1
    /\ call.initPromise = "settled"
    /\ call.callers["middleware"].pc = "resumed"
    /\ call.callers["middleware"].calledAt = "failed"
    /\ ~call.callers["middleware"].saw.associative
    /\ ~call.callers["middleware"].saw.stuck
    /\ ~call.callers["middleware"].saw.priority
    /\ ~priority

=============================================================================
